---- MODULE Spec2Model ----
(***************************************************************************)
(* Transfer execution and progress monitoring of rclone-commander.         *)
(*                                                                         *)
(* One run of RcloneCommander._do_copy_operation_async /                   *)
(* _do_move_operation_async / _do_delete_operation over a list of entries, *)
(* together with the things that run beside it: the rclone child process   *)
(* of each item, the monitor thread of each item (monitor_progress_log),   *)
(* and the user pressing Cancel on the ProgressModal.                      *)
(*                                                                         *)
(* The copy/move coroutine runs on the Textual event loop.  It gives the   *)
(* loop back only at `await asyncio.sleep(0.1)`; everything between two    *)
(* sleeps, monitor_thread.join(timeout=2) included, runs with the event    *)
(* loop blocked.  Callbacks of the event loop (the Cancel action and the   *)
(* monitor's app.call_from_thread calls) therefore run only while the      *)
(* coroutine sleeps or after it has returned.  The monitor threads and the *)
(* child processes are real concurrency and interleave everywhere.         *)
(***************************************************************************)
EXTENDS Integers, Sequences, FiniteSets, TLC

\* ---------------------------------------------------------------- bounds
\* entries selected for one run
MaxItems == 2
\* log lines written by the rclone processes of one run, all items together
MaxLog == 2
\* consecutive idle cycles a monitor thread makes within a run
MaxIdle == 1
\* log files a logs directory holds at most
MaxLogFiles == 8
\* largest progress_log_retention tried
MaxKeep == 6

\* ------------------------------------------------------ program constants
\* monitor_progress_log: max_wait = 10
max_wait == 10
\* config.py: 'progress_log_retention': '5'
default_keep_count == 5
\* Popen.returncode of a child ended by SIGKILL (process.kill())
SIGKILL_RC == -9

\* Python's None, and a value that is not None
None == <<>>
Some(x) == <<x>>
Ops == {"copy", "move", "delete"}

\* ---- log lines
\* A line of the rclone log, by the first test of parse_log_content's loop
\* that it passes:
\*   "transferred"  TRANSFERRED_PATTERN matches; val stands for the five
\*                  groups it captures (bytes, total, percentage, speed, ETA)
\*   "files"        FILES_PATTERN matches; val stands for the two counts
\*   "header"       the line contains "Transferring:"
\*   "file"         TRANSFERRING_PATTERN matches; filename is group 1 and val
\*                  stands for the percentage, size, speed and ETA groups
\*   "other"        none of them
\* A captured val is never 0, which stands for a field's default.
Line(kind, filename, val) == [kind |-> kind, filename |-> filename, val |-> val]
TransferredLine(v) == Line("transferred", "", v)
FilesLine(v) == Line("files", "", v)
HeaderLine == Line("header", "", 0)
FileLine(f, v) == Line("file", f, v)
OtherLine == Line("other", "", 0)
\* The lines rclone writes in a run: a stats line and a line of log chatter.
LogLines == {TransferredLine(1), OtherLine}

VARIABLES
    op,             \* which operation the run performs
    entries,        \* the selected entries: sequence of [name, is_dir]
    pc,             \* position of the coordinator coroutine
    i,              \* enumerate(entries, 1) index of the item in hand
    return_code,    \* return_code of each iteration (None until polled)
    modal,          \* the ProgressModal's fields
    onScreen,       \* the ProgressModal is on the screen stack
    status,         \* last update_status message of the run
    raised,         \* an exception left the run
    refreshed,      \* panels refreshed by the run
    proc,           \* per item: "none" | "running" | "exited"
    exitCode,       \* per item: exit status of the child once exited
    killReq,        \* per item: process.kill() was called on its handle
    logExists,      \* per item: the log file exists
    log,            \* per item: the log file's content
    stop_event,     \* per item: the threading.Event of its iteration is set
    monPc,          \* per item: position of its monitor thread
    last_position,  \* per item: monitor's last_position
    wait_count,     \* per item: monitor's wait_count
    new_content,    \* per item: monitor's new_content of the last tail read
    listener,       \* what the modal shows of the last snapshot delivered
    parsed,         \* per item: the chunks handed to parse_log_content so
                    \* far, one after the other (history)
    dst_fs,         \* destination entries seen by the cleanup scan
    partial_files,  \* _cleanup_partial_file: list of partial files found
    cleanup,        \* "none" | "scanned" | "prompt" | "confirmed" | "kept"
    delete_issued,  \* partial files rclone_wrapper.delete_file was called on
    deleted,        \* partial files whose delete_file returned True
    cleanup_report, \* the message handle_cleanup passes to update_status
    ppc,            \* parser loop: "off" | "tail" | "parse" | "deliver"
    chunk,          \* parser loop: the chunk in hand
    progress_data,  \* parser loop: what parse_log_content returned
    display,        \* parser loop: what the listener shows
    dst_panel,      \* the destination panel: remote, current_path
    dst_path,       \* per item: the destination handed to rclone (None
                    \* until the command of the item is built)
    logs_dir,       \* the logs directory: None when missing, else its files
    keep_count,     \* app_config.progress_log_retention
    rpc,            \* retention pass: "off" | "ready" | "done"
    logs_before,    \* the logs directory as the last pass found it
    log_errors,     \* files the pass logged a failed removal for
    lpc,            \* parser loop body: "off" | "ready" | "done";
                    \* two reads of a line: "tail1" | "tail2" | "read"
    raw_line,       \* parser loop body: the line in hand
    scan,           \* parser loop body: progress, found_any,
                    \* transferring_files
    scan_before,    \* parser loop body: the same before the line
    split,          \* two reads of a line: what each tail read returns
    snapshots       \* two reads of a line: what parse_log_content
                    \* returned for each read that had content

vars == <<op, entries, pc, i, return_code, modal, onScreen, status, raised,
          refreshed, proc, exitCode, killReq, logExists, log, stop_event,
          monPc, last_position, wait_count, new_content, listener, parsed,
          dst_fs, partial_files, cleanup, delete_issued, deleted,
          cleanup_report, ppc, chunk, progress_data, display,
          dst_panel, dst_path, logs_dir, keep_count, rpc, logs_before,
          log_errors, lpc, raw_line, scan, scan_before, split, snapshots>>

coVars == <<pc, i, return_code, modal, onScreen, status, raised, refreshed>>
procVars == <<proc, exitCode, killReq, logExists, log>>
monVars == <<monPc, last_position, wait_count, new_content, listener,
            parsed>>
cleanVars == <<dst_fs, partial_files, cleanup, delete_issued, deleted,
              cleanup_report>>
parseVars == <<ppc, chunk, progress_data, display>>
retVars == <<logs_dir, keep_count, rpc, logs_before, log_errors>>
lineVars == <<lpc, raw_line, scan, scan_before, split, snapshots>>
\* what a run leaves alone outside its launch step
offVars == <<parseVars, retVars, lineVars, dst_panel, dst_path>>

Items == 1..Len(entries)
ItemIds == 1..MaxItems

NoStatus == [kind |-> "none", arg |-> 0]

\* ProgressModal.__init__
ProgressModalInit ==
    [current_file_num |-> 0, process |-> 0, stop_event |-> 0,
     cancelled |-> FALSE, current_dst_path |-> 0]

\* ------------------------------------------------------- pure functions

\* tail_log_file with the position left at last_position after a read that
\* returned content (the offset is not advanced)
tail_log_file_StalePosition(exists, content, pos, read_error) ==
    IF ~exists \/ read_error \/ pos >= Len(content)
    THEN [new_content |-> <<>>, new_position |-> pos]
    ELSE [new_content  |-> SubSeq(content, pos + 1, Len(content)),
          new_position |-> pos]

\* tail_log_file reading the file from its start (no seek)
tail_log_file_NoSeek(exists, content, pos, read_error) ==
    IF ~exists \/ read_error
    THEN [new_content |-> <<>>, new_position |-> pos]
    ELSE [new_content |-> content, new_position |-> Len(content)]

\* tail_log_file answering offset 0 when the file cannot be read
tail_log_file_ErrorRewinds(exists, content, pos, read_error) ==
    IF ~exists \/ read_error
    THEN [new_content |-> <<>>, new_position |-> 0]
    ELSE IF pos >= Len(content)
         THEN [new_content |-> <<>>, new_position |-> pos]
         ELSE [new_content  |-> SubSeq(content, pos + 1, Len(content)),
               new_position |-> Len(content)]

\* progress_parser.tail_log_file(log_path, last_position): the file is opened,
\* seek(last_position), read() to the end, tell().  A seek past the end reads
\* nothing and tell() answers the seek position.  A missing file, or any other
\* error, answers ("", last_position).
tail_log_file(exists, content, pos, read_error) ==
    IF ~exists \/ read_error
    THEN [new_content |-> <<>>, new_position |-> pos]
    ELSE IF pos >= Len(content)
         THEN [new_content |-> <<>>, new_position |-> pos]
         ELSE [new_content  |-> SubSeq(content, pos + 1, Len(content)),
               new_position |-> Len(content)]

\* progress_parser.ProgressData(): every field at its default.
\* transferred_str stands for the five overall fields (they are set by one
\* _replace), files_transferred for files_transferred and total_files.
ProgressData ==
    [transferred_str |-> 0, files_transferred |-> 0,
     transferring_files |-> <<>>]

\* progress_parser.FileProgress(filename, percentage, size, speed, eta)
FileProgress(filename, v) == [filename |-> filename, percentage |-> v]

\* [f for f in transferring_files if f.filename != filename]
RECURSIVE without_filename(_, _)
without_filename(transferring_files, filename) ==
    IF transferring_files = <<>> THEN <<>>
    ELSE LET f == Head(transferring_files)
             rest == without_filename(Tail(transferring_files), filename)
         IN  IF f.filename # filename THEN <<f>> \o rest ELSE rest

\* The per-file branch without the removal of the entries of that filename
file_line_NoDedup(transferring_files, line) ==
    Append(transferring_files, FileProgress(line.filename, line.val))

\* The per-file branch with the new entry written over the old one in place
\* (the list keeps its order of first appearance)
file_line_InPlace(transferring_files, line) ==
    IF \E k \in DOMAIN transferring_files :
           transferring_files[k].filename = line.filename
    THEN [k \in DOMAIN transferring_files |->
             IF transferring_files[k].filename = line.filename
             THEN FileProgress(line.filename, line.val)
             ELSE transferring_files[k]]
    ELSE Append(transferring_files, FileProgress(line.filename, line.val))

\* parse_log_content, the per-file branch: the entries of the same filename
\* are removed from the list and the new entry is appended.
file_line(transferring_files, line) ==
    Append(without_filename(transferring_files, line.filename),
           FileProgress(line.filename, line.val))

\* The header branch dropping only the oldest entry of the list
header_line_DropsOldest(transferring_files) ==
    IF transferring_files = <<>> THEN <<>> ELSE Tail(transferring_files)

\* The header branch leaving the list as it is
header_line_NoClear(transferring_files) == transferring_files

\* parse_log_content, the "Transferring:" branch: transferring_files = []
header_line(transferring_files) == <<>>

\* parse_log_content's `while i < len(lines)` from line k on, with the
\* locals progress, found_any and transferring_files as they stand.
RECURSIVE parse_lines(_, _, _, _, _)
parse_lines(lines, k, progress, found_any, transferring_files) ==
    IF k > Len(lines)
    THEN IF ~found_any THEN None
         ELSE Some(IF transferring_files # <<>>
                   THEN [progress EXCEPT
                            !.transferring_files = transferring_files]
                   ELSE progress)
    ELSE LET line == lines[k] IN
         CASE line.kind = "transferred" ->
                parse_lines(lines, k + 1,
                            [progress EXCEPT !.transferred_str = line.val],
                            TRUE, transferring_files)
           [] line.kind = "files" ->
                parse_lines(lines, k + 1,
                            [progress EXCEPT !.files_transferred = line.val],
                            TRUE, transferring_files)
           [] line.kind = "header" ->
                parse_lines(lines, k + 1, progress, found_any,
                            header_line(transferring_files))
           [] line.kind = "file" ->
                parse_lines(lines, k + 1, progress, TRUE,
                            file_line(transferring_files, line))
           [] OTHER ->
                parse_lines(lines, k + 1, progress, found_any,
                            transferring_files)

\* parse_log_content with a snapshot returned for every chunk
parse_log_content_AlwaysSnapshot(content) ==
    parse_lines(content, 1, ProgressData, TRUE, <<>>)

\* progress_parser.parse_log_content(content): the lines of the chunk are
\* scanned from a fresh ProgressData(); the result is the snapshot when some
\* line matched one of the three patterns (found_any), else None.
parse_log_content(content) ==
    parse_lines(content, 1, ProgressData, FALSE, <<>>)

\* ---- the listener
\* What the ProgressModal shows before any snapshot was delivered
DisplayInit == [file_num |-> 0, overall |-> 0, counter |-> 0, files |-> <<>>]

\* ProgressModal.update_from_progress_data(progress_data, file_num): the
\* overall bar and stats are updated when the snapshot has them and left
\* alone otherwise; the counter shows the snapshot's files count, or
\* "File n of N" (0) when that is 0; the per-file container is cleared and
\* rebuilt from the snapshot's transferring_files.
update_from_progress_data(shown, data, file_num) ==
    [file_num |-> file_num,
     overall  |-> IF data.transferred_str # 0
                  THEN data.transferred_str ELSE shown.overall,
     counter  |-> data.files_transferred,
     files    |-> data.transferring_files]

\* ---- progress_parser on the text of one line
\* A line is the sequence of its pieces, white space left out; a string cut
\* out of it (a regex group) is a sequence of pieces as well, "" is <<>>.
Digits == {"0", "1", "6"}
Decimals == {"15.031", "233.367", "817.606"}
Words == {"MiB", "KiB", "B"}
RateWords == {"KiB/s", "B/s"}
Sizes == {"233.367Mi", "1Ki"}
Speeds == {"817.618Ki/s", "1Ki/s"}

\* \d+
IsInt(t) == t \in Digits
\* [\d.]+
IsNum(t) == t \in Digits \cup Decimals
\* \w+
IsWord(t) == t \in Words \cup Digits
\* int(s)
int(t) == CASE t = "0" -> 0 [] t = "1" -> 1 [] t = "6" -> 6

\* pattern.search(line): the leftmost place the pattern matches at
Leftmost(offsets) == CHOOSE o \in offsets : \A q \in offsets : o <= q

\* The overall pattern matching every line that begins with the label and a
\* number
TRANSFERRED_PATTERN_Loose(t) ==
    LET at(o) == /\ Len(t) >= o + 2
                 /\ t[o + 1] = "Transferred:"
                 /\ IsNum(t[o + 2])
        offsets == {o \in 0..Len(t) : at(o)}
    IN  IF offsets = {} THEN None
        ELSE LET o == Leftmost(offsets)
             IN  Some([g1 |-> <<t[o + 2]>>, g2 |-> <<t[o + 2]>>,
                       g3 |-> "0", g4 |-> <<t[o + 2]>>,
                       g5 |-> SubSeq(t, o + 3, Len(t))])

\* TRANSFERRED_PATTERN.search(line): None, or the five groups
\* "Transferred:" amount unit "/" amount unit "," int "%" "," amount unit/s
\* "," "ETA" rest
TRANSFERRED_PATTERN(t) ==
    LET at(o) == /\ Len(t) >= o + 15
                 /\ t[o + 1] = "Transferred:"
                 /\ IsNum(t[o + 2]) /\ IsWord(t[o + 3])
                 /\ t[o + 4] = "/"
                 /\ IsNum(t[o + 5]) /\ IsWord(t[o + 6])
                 /\ t[o + 7] = ","
                 /\ IsInt(t[o + 8]) /\ t[o + 9] = "%"
                 /\ t[o + 10] = ","
                 /\ IsNum(t[o + 11]) /\ t[o + 12] \in RateWords
                 /\ t[o + 13] = ","
                 /\ t[o + 14] = "ETA"
        offsets == {o \in 0..Len(t) : at(o)}
    IN  IF offsets = {} THEN None
        ELSE LET o == Leftmost(offsets)
             IN  Some([g1 |-> <<t[o + 2], t[o + 3]>>,
                       g2 |-> <<t[o + 5], t[o + 6]>>,
                       g3 |-> t[o + 8],
                       g4 |-> <<t[o + 11], t[o + 12]>>,
                       g5 |-> SubSeq(t, o + 15, Len(t))])

\* FILES_PATTERN.search(line): None, or the two groups
\* "Transferred:" int "/" int "," int "%"
FILES_PATTERN(t) ==
    LET at(o) == /\ Len(t) >= o + 7
                 /\ t[o + 1] = "Transferred:"
                 /\ IsInt(t[o + 2])
                 /\ t[o + 3] = "/"
                 /\ IsInt(t[o + 4])
                 /\ t[o + 5] = ","
                 /\ IsInt(t[o + 6]) /\ t[o + 7] = "%"
        offsets == {o \in 0..Len(t) : at(o)}
    IN  IF offsets = {} THEN None
        ELSE LET o == Leftmost(offsets)
             IN  Some([g1 |-> t[o + 2], g2 |-> t[o + 4]])

\* TRANSFERRING_PATTERN.search(line): None, or the five groups
\* "*" name ":" int "%" "/" size "," speed "," rest; the name is one piece
TRANSFERRING_PATTERN(t) ==
    LET at(o) == /\ Len(t) >= o + 11
                 /\ t[o + 1] = "*"
                 /\ t[o + 3] = ":"
                 /\ IsInt(t[o + 4]) /\ t[o + 5] = "%"
                 /\ t[o + 6] = "/"
                 /\ t[o + 7] \in Sizes
                 /\ t[o + 8] = ","
                 /\ t[o + 9] \in Speeds
                 /\ t[o + 10] = ","
        offsets == {o \in 0..Len(t) : at(o)}
    IN  IF offsets = {} THEN None
        ELSE LET o == Leftmost(offsets)
             IN  Some([g1 |-> <<t[o + 2]>>, g2 |-> t[o + 4],
                       g3 |-> <<t[o + 7]>>, g4 |-> <<t[o + 9]>>,
                       g5 |-> SubSeq(t, o + 11, Len(t))])

\* ProgressData(), field by field
ProgressDataFields ==
    [transferred_str    |-> <<>>,
     total_str          |-> <<>>,
     overall_percentage |-> 0,
     overall_speed      |-> <<>>,
     overall_eta        |-> <<>>,
     files_transferred  |-> 0,
     total_files        |-> 0,
     transferring_files |-> <<>>]

\* The overall branch replacing the file counters as well
replace_overall_ResetsCounters(progress, g) ==
    [ProgressDataFields EXCEPT
        !.transferred_str    = g.g1,
        !.total_str          = g.g2,
        !.overall_percentage = int(g.g3),
        !.overall_speed      = g.g4,
        !.overall_eta        = g.g5]

\* progress._replace(transferred_str=..., total_str=...,
\* overall_percentage=..., overall_speed=..., overall_eta=...)
replace_overall(progress, g) ==
    [progress EXCEPT
        !.transferred_str    = g.g1,
        !.total_str          = g.g2,
        !.overall_percentage = int(g.g3),
        !.overall_speed      = g.g4,
        !.overall_eta        = g.g5]

\* progress._replace(files_transferred=..., total_files=...)
replace_files(progress, g) ==
    [progress EXCEPT
        !.files_transferred = int(g.g1),
        !.total_files       = int(g.g2)]

\* FileProgress(filename=..., percentage=..., size=..., speed=..., eta=...)
FileProgressFields(g) ==
    [filename |-> g.g1, percentage |-> int(g.g2), size |-> g.g3,
     speed |-> g.g4, eta |-> g.g5]

\* progress, found_any and transferring_files before the loop
ScanInit ==
    [progress |-> ProgressDataFields, found_any |-> FALSE,
     transferring_files |-> <<>>]

\* One pass through the body of parse_log_content's while loop
parse_line(sc, t) ==
    LET overall  == TRANSFERRED_PATTERN(t)
        files    == FILES_PATTERN(t)
        per_file == TRANSFERRING_PATTERN(t)
    IN  IF overall # None
        THEN [sc EXCEPT !.progress = replace_overall(@, overall[1]),
                        !.found_any = TRUE]
        ELSE IF files # None
        THEN [sc EXCEPT !.progress = replace_files(@, files[1]),
                        !.found_any = TRUE]
        ELSE IF \E k \in 1..Len(t) : t[k] = "Transferring:"
        THEN [sc EXCEPT !.transferring_files = <<>>]
        ELSE IF per_file # None
        THEN LET file_progress == FileProgressFields(per_file[1])
                 others == SelectSeq(sc.transferring_files,
                              LAMBDA f : f.filename # file_progress.filename)
             IN  [sc EXCEPT
                    !.transferring_files = Append(others, file_progress),
                    !.found_any = TRUE]
        ELSE sc

\* ---- the destination as the cleanup scan lists it
\* A name is "<stem>" (ext ""), "<stem>.bak" or "<stem>.<token>.partial";
\* stem 0 is a name that belongs to no item of the run.
Name(stem, ext) == [stem |-> stem, ext |-> ext]
\* A directory is the sequence of names leading to it from the scanned one.
Root == <<>>
SubDirName == Name(0, "")
SubDir == <<SubDirName>>

\* str.endswith(".partial")
endswith_partial(name) == name.ext = "partial"
\* str.startswith(filename + ".")
startswith_dot(name, filename) == name.stem = filename /\ name.ext # ""

\* What may lie under the directory scanned for item `it` (the destination
\* directory of a file item, the destination's <name>/ of a directory item):
\* the item's own partial file, another partial file, a sibling that is no
\* partial file, a subdirectory with a partial file in it, and a directory
\* whose own name ends in .partial.
FsUniverse(it) ==
    { [dir |-> Root,   name |-> Name(it, "partial"), is_dir |-> FALSE],
      [dir |-> Root,   name |-> Name(0, "partial"),  is_dir |-> FALSE],
      [dir |-> Root,   name |-> Name(it, "bak"),     is_dir |-> FALSE],
      [dir |-> Root,   name |-> SubDirName,          is_dir |-> TRUE],
      [dir |-> SubDir, name |-> Name(0, "partial"),  is_dir |-> FALSE],
      [dir |-> Root,   name |-> Name(it, "partial"), is_dir |-> TRUE] }

\* A directory tree: whatever lies in a subdirectory has that subdirectory.
FsStates(it) ==
    { fs \in SUBSET FsUniverse(it) :
        \A e \in fs : e.dir # Root =>
            \E d \in fs : d.dir = Root /\ d.is_dir /\ <<d.name>> = e.dir }

\* What the scan of item k's destination is given by its listings: a tree as
\* above together with, when item k is a file (the directory scanned is then
\* the destination directory itself), the entries the earlier items of the
\* run were transferred to; or nothing at all when the listing fails.
EarlierDest(ents, k) ==
    IF ents[k].is_dir THEN {}
    ELSE {[dir |-> Root, name |-> Name(ents[j].name, ""),
           is_dir |-> ents[j].is_dir] : j \in 1..(k - 1)}
DstListings(ents, k) ==
    {base \cup EarlierDest(ents, k) : base \in FsStates(ents[k].name)}
        \cup {{}}

\* rclone_wrapper.list_directory: the entries of one directory
list_directory(fs, path) == {e \in fs : e.dir = path}

\* _find_partial_files_recursive without the descent into subdirectories
find_partial_files_NoRecursion(fs, dir_path) ==
    {e \in list_directory(fs, dir_path) :
        ~e.is_dir /\ endswith_partial(e.name)}

\* RcloneCommander._find_partial_files_recursive
RECURSIVE find_partial_files_recursive(_, _)
find_partial_files_recursive(fs, dir_path) ==
    LET listing == list_directory(fs, dir_path)
        found   == {e \in listing : ~e.is_dir /\ endswith_partial(e.name)}
    IN  found \cup
        UNION { find_partial_files_recursive(fs, Append(dir_path, e.name)) :
                  e \in {d \in listing : d.is_dir} }

\* _cleanup_partial_file listing, for a file item, every entry of the
\* destination directory
cleanup_partial_file_AnyName(fs, filename, is_directory) ==
    IF is_directory
    THEN find_partial_files_recursive(fs, Root)
    ELSE list_directory(fs, Root)

\* _cleanup_partial_file without the `filename + "."` prefix test
cleanup_partial_file_NoPrefix(fs, filename, is_directory) ==
    IF is_directory
    THEN find_partial_files_recursive(fs, Root)
    ELSE {e \in list_directory(fs, Root) : endswith_partial(e.name)}

\* RcloneCommander._cleanup_partial_file up to the prompt: the partial files
\* it finds for item `filename`
cleanup_partial_file(fs, filename, is_directory) ==
    IF is_directory
    THEN find_partial_files_recursive(fs, Root)
    ELSE {e \in list_directory(fs, Root) :
            startswith_dot(e.name, filename) /\ endswith_partial(e.name)}

\* ---- paths handed to rclone
\* A string is the sequence of its pieces: names, "/" and ":".
Str(name) == <<ToString(name)>>

\* os.path.join(a, b): b alone when a is empty or b is absolute, else a and
\* b with one "/" between them
os_path_join(a, b) ==
    IF b # <<>> /\ b[1] = "/" THEN b
    ELSE IF a = <<>> THEN b
    ELSE IF a[Len(a)] = "/" THEN a \o b
    ELSE a \o <<"/">> \o b

\* build_path(remote, current_path, filename)
build_path(remote, current_path, filename) ==
    IF filename # <<>>
    THEN <<remote, ":">> \o os_path_join(current_path, filename)
    ELSE <<remote, ":">> \o current_path

\* Where the destination panel may stand: the root of the remote, or a
\* directory of it
DstPaths == {<<>>, <<"d">>}

\* The destination with the item's name appended for files as well
transfer_dst_path_AlwaysNamed(panel, entry) ==
    build_path(panel.remote, panel.current_path, Str(entry.name))

\* dst_path of _do_copy_operation_async and _do_move_operation_async:
\* `if entry.is_dir:` the panel's path with the entry's name, else the
\* panel's path alone
transfer_dst_path(panel, entry) ==
    IF entry.is_dir
    THEN build_path(panel.remote, panel.current_path, Str(entry.name))
    ELSE build_path(panel.remote, panel.current_path, <<>>)

\* ---- the logs directory
\* A file of the logs directory: its modification time and whether its name
\* ends in .log.  The files of one directory have distinct times.
LogFile(mtime, is_log) == [mtime |-> mtime, is_log |-> is_log]
LogFiles == {LogFile(t, TRUE) : t \in 1..MaxLogFiles}
                \cup {LogFile(MaxLogFiles + 1, FALSE)}

Range(seq) == {seq[k] : k \in 1..Len(seq)}

\* log_files.sort(key=mtime) without reverse=True
RECURSIVE sort_oldest_first(_)
sort_oldest_first(files) ==
    IF files = {} THEN <<>>
    ELSE LET f == CHOOSE x \in files : \A y \in files : x.mtime <= y.mtime
         IN  <<f>> \o sort_oldest_first(files \ {f})

\* log_files.sort(key=lambda x: x[1], reverse=True)
RECURSIVE sort_newest_first(_)
sort_newest_first(files) ==
    IF files = {} THEN <<>>
    ELSE LET f == CHOOSE x \in files : \A y \in files : x.mtime >= y.mtime
         IN  <<f>> \o sort_newest_first(files \ {f})

\* seq[k:] of a Python list: a negative k counts from the end
slice_from(seq, k) ==
    LET n     == Len(seq)
        start == IF k >= 0 THEN (IF k < n THEN k ELSE n)
                           ELSE (IF n + k > 0 THEN n + k ELSE 0)
    IN  SubSeq(seq, start + 1, n)

\* rclone_wrapper.cleanup_old_logs(logs_dir, keep_count).  `undeletable` are
\* the files os.remove raises for: the inner except logs the failure and the
\* loop goes on; the outer except lets nothing out of the function.
cleanup_old_logs(dir, keep, undeletable) ==
    IF dir = None
    THEN [dir |-> dir, errors |-> {}, raised |-> FALSE]
    ELSE LET log_files == sort_newest_first({f \in dir[1] : f.is_log})
             doomed    == Range(slice_from(log_files, keep))
             failed    == doomed \cap undeletable
         IN  [dir    |-> Some(dir[1] \ (doomed \ failed)),
              errors |-> failed,
              raised |-> FALSE]

\* wait_count += 1.  The counter is only ever compared with max_wait, so it
\* is kept saturated at max_wait + 1.
Bump(w) == IF w > max_wait THEN w ELSE w + 1

RunInit ==
    /\ op \in Ops
    /\ \E n \in 1..MaxItems :
         entries \in {e \in [1..n -> [name : 1..n, is_dir : BOOLEAN]] :
                         \A j \in 1..n : e[j].name = j}
    /\ pc = "begin"
    /\ i = 0
    /\ return_code = [j \in ItemIds |-> None]
    /\ modal = ProgressModalInit
    /\ onScreen = FALSE
    /\ status = NoStatus
    /\ raised = FALSE
    /\ refreshed = {}
    /\ proc = [j \in ItemIds |-> "none"]
    /\ exitCode = [j \in ItemIds |-> None]
    /\ killReq = [j \in ItemIds |-> FALSE]
    /\ logExists = [j \in ItemIds |-> FALSE]
    /\ log = [j \in ItemIds |-> <<>>]
    /\ stop_event = [j \in ItemIds |-> FALSE]
    /\ monPc = [j \in ItemIds |-> "none"]
    /\ last_position = [j \in ItemIds |-> 0]
    /\ wait_count = [j \in ItemIds |-> 0]
    /\ new_content = [j \in ItemIds |-> <<>>]
    /\ listener = DisplayInit
    /\ parsed = [j \in ItemIds |-> <<>>]
    /\ dst_fs = {}
    /\ partial_files = {}
    /\ cleanup = "none"
    /\ delete_issued = {}
    /\ deleted = {}
    /\ cleanup_report = NoStatus
    /\ dst_path = [j \in ItemIds |-> None]

\* The parser loop, the retention pass and the parser's loop body taken
\* alone are not in play
ParseOff ==
    /\ ppc = "off"
    /\ chunk = <<>>
    /\ progress_data = None
    /\ display = DisplayInit
RetOff ==
    /\ logs_dir = None
    /\ keep_count = default_keep_count
    /\ rpc = "off"
    /\ logs_before = None
    /\ log_errors = {}
SplitOff ==
    /\ split = <<>>
    /\ snapshots = <<>>
LineOff ==
    /\ lpc = "off"
    /\ raw_line = <<>>
    /\ scan = ScanInit
    /\ scan_before = ScanInit
    /\ SplitOff

\* A run, the destination panel at the root of its remote
Init ==
    /\ RunInit
    /\ dst_panel = [remote |-> "remote", current_path |-> <<>>]
    /\ ParseOff
    /\ RetOff
    /\ LineOff

\* --------------------------------------------------------- coordinator

Running(j) == proc[j] = "running"
\* The event loop runs callbacks only while the coroutine is suspended in
\* asyncio.sleep or has returned.
EventLoopFree == pc \in {"sleep", "done"}

\* The monitor thread waits in app.call_from_thread for the event loop.
WaitsForEventLoop(j) == monPc[j] \in {"deliver", "refresh"}

\* monitor_thread.join() without a timeout
join_NoTimeout(j) == monPc[j] = "dead"

\* monitor_thread.join(timeout=2), called with stop_event set: it returns when
\* the thread has ended, or when the 2 s have passed.  The thread's own sleeps
\* (0.5 s, 1 s after an error) are shorter than that, so the join outlasts
\* every thread except one that waits for the event loop, which this very
\* join keeps blocked.
join(j) == monPc[j] = "dead" \/ WaitsForEventLoop(j)

\* push_screen(progress_modal); then the loop over the entries starts
CoBegin ==
    /\ pc = "begin"
    /\ onScreen' = TRUE
    /\ i' = 1
    /\ pc' = IF op = "delete" THEN "delete" ELSE "launch"
    /\ UNCHANGED <<offVars,
                   op, entries, return_code, modal, status, raised, refreshed>>
    /\ UNCHANGED <<procVars, stop_event, monVars, cleanVars>>

\* The launch of an item handing the modal its process and stop event only
\* when the modal holds none yet
CoLaunch_StaleHandles ==
    /\ pc = "launch"
    /\ proc' = [proc EXCEPT ![i] = "running"]
    /\ modal' = [modal EXCEPT
                   !.current_file_num = i,
                   !.current_dst_path = i,
                   !.process    = IF @ = 0 THEN i ELSE @,
                   !.stop_event = IF @ = 0 THEN i ELSE @]
    /\ stop_event' = [stop_event EXCEPT ![i] = FALSE]
    /\ monPc' = [monPc EXCEPT ![i] = "loop"]
    /\ last_position' = [last_position EXCEPT ![i] = 0]
    /\ wait_count' = [wait_count EXCEPT ![i] = 0]
    /\ return_code' = [return_code EXCEPT ![i] = None]
    /\ pc' = "poll"
    /\ dst_path' = [dst_path EXCEPT
                       ![i] = Some(transfer_dst_path(dst_panel, entries[i]))]
    /\ UNCHANGED <<parseVars, retVars, lineVars, dst_panel,
                   op, entries, i, onScreen, status, raised, refreshed>>
    /\ UNCHANGED <<exitCode, killReq, logExists, log, new_content, listener,
                   parsed>>
    /\ UNCHANGED cleanVars

\* The launch of an item that does not put the process handle on the modal
CoLaunch_NoProcessHandle ==
    /\ pc = "launch"
    /\ proc' = [proc EXCEPT ![i] = "running"]
    /\ modal' = [modal EXCEPT !.current_file_num = i,
                               !.current_dst_path = i,
                               !.stop_event = i]
    /\ stop_event' = [stop_event EXCEPT ![i] = FALSE]
    /\ monPc' = [monPc EXCEPT ![i] = "loop"]
    /\ last_position' = [last_position EXCEPT ![i] = 0]
    /\ wait_count' = [wait_count EXCEPT ![i] = 0]
    /\ return_code' = [return_code EXCEPT ![i] = None]
    /\ pc' = "poll"
    /\ dst_path' = [dst_path EXCEPT
                       ![i] = Some(transfer_dst_path(dst_panel, entries[i]))]
    /\ UNCHANGED <<parseVars, retVars, lineVars, dst_panel,
                   op, entries, i, onScreen, status, raised, refreshed>>
    /\ UNCHANGED <<exitCode, killReq, logExists, log, new_content, listener,
                   parsed>>
    /\ UNCHANGED cleanVars

\* One iteration up to monitor_thread.start(): update_progress, the
\* destination for cleanup, run_rclone_with_progress, the handle and a fresh
\* stop_event put on the modal, the monitor thread started.
CoLaunch ==
    /\ pc = "launch"
    /\ proc' = [proc EXCEPT ![i] = "running"]
    /\ modal' = [modal EXCEPT !.current_file_num = i,
                               !.current_dst_path = i,
                               !.process = i,
                               !.stop_event = i]
    /\ stop_event' = [stop_event EXCEPT ![i] = FALSE]
    /\ monPc' = [monPc EXCEPT ![i] = "loop"]
    /\ last_position' = [last_position EXCEPT ![i] = 0]
    /\ wait_count' = [wait_count EXCEPT ![i] = 0]
    /\ return_code' = [return_code EXCEPT ![i] = None]
    /\ pc' = "poll"
    /\ dst_path' = [dst_path EXCEPT
                       ![i] = Some(transfer_dst_path(dst_panel, entries[i]))]
    /\ UNCHANGED <<parseVars, retVars, lineVars, dst_panel,
                   op, entries, i, onScreen, status, raised, refreshed>>
    /\ UNCHANGED <<exitCode, killReq, logExists, log, new_content, listener,
                   parsed>>
    /\ UNCHANGED cleanVars

\* run_rclone_with_progress raising, the exception swallowed and the loop
\* going on to the next entry
CoLaunchFail_Continues ==
    /\ pc = "launch"
    /\ modal' = [modal EXCEPT !.current_file_num = i, !.current_dst_path = i]
    /\ dst_path' = [dst_path EXCEPT
                       ![i] = Some(transfer_dst_path(dst_panel, entries[i]))]
    /\ IF i < Len(entries)
       THEN /\ i' = i + 1
            /\ pc' = "launch"
            /\ UNCHANGED <<onScreen, raised>>
       ELSE /\ onScreen' = FALSE
            /\ raised' = TRUE
            /\ pc' = "done"
            /\ UNCHANGED i
    /\ UNCHANGED <<parseVars, retVars, lineVars, dst_panel,
                   op, entries, return_code, status, refreshed>>
    /\ UNCHANGED <<procVars, stop_event, monVars, cleanVars>>

\* subprocess.Popen raises (executable missing): except Exception:
\* pop_screen(); raise
CoLaunchFail ==
    /\ pc = "launch"
    /\ modal' = [modal EXCEPT !.current_file_num = i, !.current_dst_path = i]
    /\ onScreen' = FALSE
    /\ raised' = TRUE
    /\ pc' = "done"
    /\ dst_path' = [dst_path EXCEPT
                       ![i] = Some(transfer_dst_path(dst_panel, entries[i]))]
    /\ UNCHANGED <<parseVars, retVars, lineVars, dst_panel,
                   op, entries, i, return_code, status, refreshed>>
    /\ UNCHANGED <<procVars, stop_event, monVars, cleanVars>>

\* The poll loop looking at the exit status first when a cancel was requested:
\* a process that has exited is treated as finished, not as cancelled
CoCancelObserved_ExitStatusFirst ==
    /\ pc = "poll"
    /\ modal.cancelled
    /\ stop_event' = [stop_event EXCEPT ![i] = TRUE]
    /\ IF proc[i] = "exited"
       THEN /\ return_code' = [return_code EXCEPT ![i] = exitCode[i]]
            /\ pc' = "join_exit"
       ELSE /\ pc' = "join_cancel"
            /\ UNCHANGED return_code
    /\ UNCHANGED <<offVars,
                   op, entries, i, modal, onScreen, status,
                   raised, refreshed>>
    /\ UNCHANGED <<procVars, monVars, cleanVars>>

\* poll loop: `if progress_modal.cancelled:` stop_event.set(), then the join
CoCancelObserved ==
    /\ pc = "poll"
    /\ modal.cancelled
    /\ stop_event' = [stop_event EXCEPT ![i] = TRUE]
    /\ pc' = "join_cancel"
    /\ UNCHANGED <<offVars,
                   op, entries, i, return_code, modal, onScreen, status,
                   raised, refreshed>>
    /\ UNCHANGED <<procVars, monVars, cleanVars>>

\* poll loop: process.poll() answers None; await asyncio.sleep(0.1)
CoPollRunning ==
    /\ pc = "poll"
    /\ ~modal.cancelled
    /\ Running(i)
    /\ pc' = "sleep"
    /\ UNCHANGED <<offVars,
                   op, entries, i, return_code, modal, onScreen, status,
                   raised, refreshed>>
    /\ UNCHANGED <<procVars, stop_event, monVars, cleanVars>>

\* The poll loop with process.poll() looked at before progress_modal.cancelled
CoPollExited_BeforeCancelCheck ==
    /\ pc = "poll"
    /\ proc[i] = "exited"
    /\ return_code' = [return_code EXCEPT ![i] = exitCode[i]]
    /\ stop_event' = [stop_event EXCEPT ![i] = TRUE]
    /\ pc' = "join_exit"
    /\ UNCHANGED <<offVars,
                   op, entries, i, modal, onScreen, status, raised, refreshed>>
    /\ UNCHANGED <<procVars, monVars, cleanVars>>

\* The end of the poll loop going to the join without stop_event.set()
CoPollExited_NoStop ==
    /\ pc = "poll"
    /\ ~modal.cancelled
    /\ proc[i] = "exited"
    /\ return_code' = [return_code EXCEPT ![i] = exitCode[i]]
    /\ pc' = "join_exit"
    /\ UNCHANGED <<offVars,
                   op, entries, i, modal, onScreen, status, raised, refreshed>>
    /\ UNCHANGED <<procVars, stop_event, monVars, cleanVars>>

\* poll loop: process.poll() answers the exit status; the loop ends and
\* stop_event.set() follows, then the join
CoPollExited ==
    /\ pc = "poll"
    /\ ~modal.cancelled
    /\ proc[i] = "exited"
    /\ return_code' = [return_code EXCEPT ![i] = exitCode[i]]
    /\ stop_event' = [stop_event EXCEPT ![i] = TRUE]
    /\ pc' = "join_exit"
    /\ UNCHANGED <<offVars,
                   op, entries, i, modal, onScreen, status, raised, refreshed>>
    /\ UNCHANGED <<procVars, monVars, cleanVars>>

\* asyncio.sleep(0.1) is over
CoWake ==
    /\ pc = "sleep"
    /\ pc' = "poll"
    /\ UNCHANGED <<offVars,
                   op, entries, i, return_code, modal, onScreen, status,
                   raised, refreshed>>
    /\ UNCHANGED <<procVars, stop_event, monVars, cleanVars>>

\* refresh_panel calls of the three endings
RefreshOnEnd == IF op = "move" THEN {"src", "dst"} ELSE {"dst"}

\* Cancel branch after the join: pop_screen, _cleanup_partial_file on
\* current_dst_path (the scan, and the prompt when something was found),
\* refresh, "Copy cancelled" / "Move cancelled", return.
CoCancelled ==
    /\ pc = "join_cancel"
    /\ join(i)
    /\ onScreen' = FALSE
    /\ \E fs \in DstListings(entries, i) :
          /\ dst_fs' = fs
          /\ partial_files' =
                cleanup_partial_file(fs, entries[i].name, entries[i].is_dir)
    /\ cleanup' = IF partial_files' = {} THEN "scanned" ELSE "prompt"
    /\ UNCHANGED <<delete_issued, deleted, cleanup_report>>
    /\ refreshed' = RefreshOnEnd
    /\ status' = [kind |-> "cancelled", arg |-> 0]
    /\ pc' = "done"
    /\ UNCHANGED <<offVars, op, entries, i, return_code, modal, raised>>
    /\ UNCHANGED <<procVars, stop_event, monVars>>

\* The failure branch with the cleaner called as in the cancel branch
CoFailed_WithCleanup ==
    /\ pc = "join_exit"
    /\ join(i)
    /\ return_code[i] # Some(0)
    /\ onScreen' = FALSE
    /\ \E fs \in DstListings(entries, i) :
          /\ dst_fs' = fs
          /\ partial_files' =
                cleanup_partial_file(fs, entries[i].name, entries[i].is_dir)
    /\ cleanup' = IF partial_files' = {} THEN "scanned" ELSE "prompt"
    /\ UNCHANGED <<delete_issued, deleted, cleanup_report>>
    /\ refreshed' = RefreshOnEnd
    /\ status' = [kind |-> "failed", arg |-> entries[i].name]
    /\ pc' = "done"
    /\ UNCHANGED <<offVars, op, entries, i, return_code, modal, raised>>
    /\ UNCHANGED <<procVars, stop_event, monVars>>

\* The failure branch reporting the failure and going on with the next entry
CoFailed_GoesOn ==
    /\ pc = "join_exit"
    /\ join(i)
    /\ return_code[i] # Some(0)
    /\ status' = [kind |-> "failed", arg |-> entries[i].name]
    /\ IF i < Len(entries)
       THEN /\ i' = i + 1
            /\ pc' = "launch"
            /\ UNCHANGED <<onScreen, refreshed>>
       ELSE /\ onScreen' = FALSE
            /\ refreshed' = RefreshOnEnd
            /\ pc' = "done"
            /\ UNCHANGED i
    /\ UNCHANGED <<offVars, op, entries, return_code, modal, raised>>
    /\ UNCHANGED <<procVars, stop_event, monVars, cleanVars>>

\* After the join, return_code != 0: pop_screen, refresh,
\* "Failed to copy <name>", return.
CoFailed ==
    /\ pc = "join_exit"
    /\ join(i)
    /\ return_code[i] # Some(0)
    /\ onScreen' = FALSE
    /\ refreshed' = RefreshOnEnd
    /\ status' = [kind |-> "failed", arg |-> entries[i].name]
    /\ pc' = "done"
    /\ UNCHANGED <<offVars, op, entries, i, return_code, modal, raised>>
    /\ UNCHANGED <<procVars, stop_event, monVars, cleanVars>>

\* The next iteration entered whatever return_code is
CoNext_AnyReturnCode ==
    /\ pc = "join_exit"
    /\ join(i)
    /\ i < Len(entries)
    /\ i' = i + 1
    /\ pc' = "launch"
    /\ UNCHANGED <<offVars,
                   op, entries, return_code, modal, onScreen, status, raised,
                   refreshed>>
    /\ UNCHANGED <<procVars, stop_event, monVars, cleanVars>>

\* After the join, return_code == 0 and entries remain: the next iteration
CoNext ==
    /\ pc = "join_exit"
    /\ join(i)
    /\ return_code[i] = Some(0)
    /\ i < Len(entries)
    /\ i' = i + 1
    /\ pc' = "launch"
    /\ UNCHANGED <<offVars,
                   op, entries, return_code, modal, onScreen, status, raised,
                   refreshed>>
    /\ UNCHANGED <<procVars, stop_event, monVars, cleanVars>>

\* The success message counting the entries before the last one
CoCompleted_OffByOne ==
    /\ pc = "join_exit"
    /\ join(i)
    /\ return_code[i] = Some(0)
    /\ i = Len(entries)
    /\ onScreen' = FALSE
    /\ status' = [kind |-> "completed", arg |-> Len(entries) - 1]
    /\ refreshed' = RefreshOnEnd
    /\ pc' = "done"
    /\ UNCHANGED <<offVars, op, entries, i, return_code, modal, raised>>
    /\ UNCHANGED <<procVars, stop_event, monVars, cleanVars>>

\* After the join of the last entry, return_code == 0: pop_screen,
\* "Copied <n> item(s)", refresh.
CoCompleted ==
    /\ pc = "join_exit"
    /\ join(i)
    /\ return_code[i] = Some(0)
    /\ i = Len(entries)
    /\ onScreen' = FALSE
    /\ status' = [kind |-> "completed", arg |-> Len(entries)]
    /\ refreshed' = RefreshOnEnd
    /\ pc' = "done"
    /\ UNCHANGED <<offVars, op, entries, i, return_code, modal, raised>>
    /\ UNCHANGED <<procVars, stop_event, monVars, cleanVars>>

\* _do_delete_operation, one entry deleted: delete_file runs rclone to its end
\* and answers returncode == 0; after the last entry pop_screen,
\* "Deleted <n> item(s)" and the refresh of the active panel.
CoDeleteOk ==
    /\ pc = "delete"
    /\ modal' = [modal EXCEPT !.current_file_num = i]
    /\ proc' = [proc EXCEPT ![i] = "exited"]
    /\ exitCode' = [exitCode EXCEPT ![i] = Some(0)]
    /\ return_code' = [return_code EXCEPT ![i] = Some(0)]
    /\ IF i < Len(entries)
       THEN /\ i' = i + 1
            /\ UNCHANGED <<pc, onScreen, status, refreshed>>
       ELSE /\ onScreen' = FALSE
            /\ status' = [kind |-> "completed", arg |-> Len(entries)]
            /\ refreshed' = {"active"}
            /\ pc' = "done"
            /\ UNCHANGED i
    /\ UNCHANGED <<offVars, op, entries, raised, killReq, logExists, log>>
    /\ UNCHANGED <<stop_event, monVars, cleanVars>>

\* The delete loop going on after delete_file answered False
CoDeleteFail_NoReturn ==
    /\ pc = "delete"
    /\ modal' = [modal EXCEPT !.current_file_num = i]
    /\ proc' = [proc EXCEPT ![i] = "exited"]
    /\ exitCode' = [exitCode EXCEPT ![i] = Some(1)]
    /\ return_code' = [return_code EXCEPT ![i] = Some(1)]
    /\ IF i < Len(entries)
       THEN /\ i' = i + 1
            /\ UNCHANGED <<pc, onScreen, status>>
       ELSE /\ onScreen' = FALSE
            /\ status' = [kind |-> "failed", arg |-> entries[i].name]
            /\ pc' = "done"
            /\ UNCHANGED i
    /\ UNCHANGED <<offVars,
                   op, entries, raised, refreshed, killReq, logExists, log>>
    /\ UNCHANGED <<stop_event, monVars, cleanVars>>

\* _do_delete_operation, delete_file answers False: pop_screen,
\* "Failed to delete <name>", return (before the refresh).
CoDeleteFail ==
    /\ pc = "delete"
    /\ modal' = [modal EXCEPT !.current_file_num = i]
    /\ proc' = [proc EXCEPT ![i] = "exited"]
    /\ exitCode' = [exitCode EXCEPT ![i] = Some(1)]
    /\ return_code' = [return_code EXCEPT ![i] = Some(1)]
    /\ onScreen' = FALSE
    /\ status' = [kind |-> "failed", arg |-> entries[i].name]
    /\ pc' = "done"
    /\ UNCHANGED <<offVars,
                   op, entries, i, raised, refreshed, killReq, logExists, log>>
    /\ UNCHANGED <<stop_event, monVars, cleanVars>>

\* ---------------------------------------------------------------- caller

\* action_cancel_operation without process.kill()
Cancel_NoKill ==
    /\ onScreen
    /\ pc = "sleep"
    /\ modal' = [modal EXCEPT !.cancelled = TRUE]
    /\ stop_event' = IF modal.stop_event # 0
                     THEN [stop_event EXCEPT ![modal.stop_event] = TRUE]
                     ELSE stop_event
    /\ UNCHANGED <<offVars,
                   op, entries, pc, i, return_code, onScreen, status, raised,
                   refreshed>>
    /\ UNCHANGED <<procVars, monVars, cleanVars>>

\* ProgressModal.action_cancel_operation (Esc or the Cancel button), run by
\* the event loop: cancelled = True, process.kill(), stop_event.set().
Cancel ==
    /\ onScreen
    /\ pc = "sleep"
    /\ modal' = [modal EXCEPT !.cancelled = TRUE]
    /\ killReq' = IF modal.process # 0
                  THEN [killReq EXCEPT ![modal.process] = TRUE]
                  ELSE killReq
    /\ stop_event' = IF modal.stop_event # 0
                     THEN [stop_event EXCEPT ![modal.stop_event] = TRUE]
                     ELSE stop_event
    /\ UNCHANGED <<offVars,
                   op, entries, pc, i, return_code, onScreen, status, raised,
                   refreshed>>
    /\ UNCHANGED <<proc, exitCode, logExists, log, monVars, cleanVars>>

\* --------------------------------------------- the cleanup prompt's answer

\* handle_cleanup deleting whatever the caller answered
should_delete_Always(confirmed) == TRUE

\* handle_cleanup: `if confirmed:`
should_delete(confirmed) == confirmed = Some(TRUE)

\* The deletion loop of handle_cleanup giving up at the first delete_file
\* that returns False
RECURSIVE delete_loop_StopAtFailure(_, _)
delete_loop_StopAtFailure(files, ok) ==
    IF files = {}
    THEN [issued |-> {}, deleted |-> {}, deleted_count |-> 0]
    ELSE LET f == CHOOSE x \in files : TRUE
         IN  IF f \notin ok
             THEN [issued |-> {f}, deleted |-> {}, deleted_count |-> 0]
             ELSE LET rest == delete_loop_StopAtFailure(files \ {f}, ok)
                  IN  [issued        |-> {f} \cup rest.issued,
                       deleted       |-> {f} \cup rest.deleted,
                       deleted_count |-> rest.deleted_count + 1]

\* The deletion loop of handle_cleanup: `for filename, partial_path in
\* partial_files:` calls delete_file on each and counts the calls that
\* returned True.  `ok` is the set of files whose deletion succeeds; the
\* result does not depend on the order the list is walked in.
RECURSIVE delete_loop(_, _)
delete_loop(files, ok) ==
    IF files = {}
    THEN [issued |-> {}, deleted |-> {}, deleted_count |-> 0]
    ELSE LET f    == CHOOSE x \in files : TRUE
             rest == delete_loop(files \ {f}, ok)
             success == f \in ok
         IN  [issued        |-> {f} \cup rest.issued,
              deleted       |-> IF success THEN {f} \cup rest.deleted
                                           ELSE rest.deleted,
              deleted_count |-> IF success THEN rest.deleted_count + 1
                                           ELSE rest.deleted_count]

\* handle_cleanup(confirmed), the callback of the ConfirmationModal pushed by
\* _cleanup_partial_file: on a confirmation delete_file is called on every
\* partial file found (each call may fail) and the count is reported; on
\* anything else (False, or None when the modal was dismissed) nothing is
\* done.
handle_cleanup ==
    /\ cleanup = "prompt"
    /\ \E confirmed \in {Some(TRUE), Some(FALSE), None} :
         /\ cleanup' = IF confirmed = Some(TRUE) THEN "confirmed" ELSE "kept"
         /\ IF should_delete(confirmed)
            THEN
              \E ok \in SUBSET partial_files :
                 LET done == delete_loop(partial_files, ok)
                 IN  /\ delete_issued' = done.issued
                     /\ deleted' = done.deleted
                     /\ cleanup_report' =
                          IF done.deleted_count > 0
                          THEN [kind |-> "deleted",
                                arg  |-> done.deleted_count]
                          ELSE [kind |-> "delete_failed", arg |-> 0]
            ELSE UNCHANGED <<delete_issued, deleted, cleanup_report>>
    /\ UNCHANGED <<offVars, op, entries, coVars, procVars, stop_event,
                   monVars, dst_fs, partial_files>>

\* ------------------------------------------------------- rclone process

RECURSIVE SumLen(_, _)
SumLen(f, S) ==
    IF S = {} THEN 0
    ELSE LET x == CHOOSE y \in S : TRUE IN Len(f[x]) + SumLen(f, S \ {x})
LinesWritten == SumLen(log, ItemIds)

\* rclone opens its --log-file
ProcCreateLog(j) ==
    /\ Running(j)
    /\ ~logExists[j]
    /\ logExists' = [logExists EXCEPT ![j] = TRUE]
    /\ UNCHANGED <<offVars, op, entries, coVars, proc, exitCode, killReq, log,
                   stop_event, monVars, cleanVars>>

\* rclone appends a line to its log
ProcAppend(j) ==
    /\ Running(j)
    /\ logExists[j]
    /\ LinesWritten < MaxLog
    /\ \E line \in LogLines : log' = [log EXCEPT ![j] = Append(@, line)]
    /\ UNCHANGED <<offVars,
                   op, entries, coVars, proc, exitCode, killReq, logExists,
                   stop_event, monVars, cleanVars>>

\* The child ends: by the SIGKILL of process.kill() when one was sent while
\* it ran, else on its own with status 0 or 1.
ProcExit(j) ==
    /\ Running(j)
    /\ proc' = [proc EXCEPT ![j] = "exited"]
    /\ \E rc \in {0, 1} :
          exitCode' = [exitCode EXCEPT
                         ![j] = Some(IF killReq[j] THEN SIGKILL_RC ELSE rc)]
    /\ UNCHANGED <<offVars,
                   op, entries, coVars, killReq, logExists, log, stop_event,
                   monVars, cleanVars>>

\* ------------------------------------------- monitor_progress_log thread

\* `while not stop_event.is_set()` finds the event set: the thread ends, and
\* with it the locals of its frame
MonExit(j) ==
    /\ monPc[j] = "loop"
    /\ stop_event[j]
    /\ monPc' = [monPc EXCEPT ![j] = "dead"]
    /\ last_position' = [last_position EXCEPT ![j] = 0]
    /\ wait_count' = [wait_count EXCEPT ![j] = 0]
    /\ new_content' = [new_content EXCEPT ![j] = <<>>]
    /\ UNCHANGED <<offVars, op, entries, coVars, procVars, stop_event,
                   listener, parsed, cleanVars>>

\* The snapshot handed over whatever parse_log_content returned
after_parse_Always(data) == "deliver"

\* `if progress_data:` the snapshot is handed over, else the cycle goes on
after_parse(data) == IF data # None THEN "deliver" ELSE "loop"

\* The give-up test with the offset left out of it: the thread gives up
\* after max_wait idle cycles in a row wherever it stands in the file
give_up_AnyOffset(w, new_position) == w > max_wait

\* The give-up test with the offset test inverted: the thread gives up once
\* it has read something and max_wait idle cycles in a row have passed
give_up_NonZeroOffset(w, new_position) == w > max_wait /\ new_position # 0

\* `if wait_count > max_wait and last_position == 0: break`
give_up(w, new_position) == w > max_wait /\ new_position = 0

\* The cycle begun without testing stop_event: a read that finds new content
MonRead_StopUnchecked(j, idle_cap) ==
    /\ monPc[j] = "loop"
    /\ LET r == tail_log_file(logExists[j], log[j], last_position[j], FALSE)
       IN  /\ r.new_content # <<>>
           /\ new_content' = [new_content EXCEPT ![j] = r.new_content]
           /\ last_position' = [last_position EXCEPT ![j] = r.new_position]
           /\ wait_count' = [wait_count EXCEPT ![j] = 0]
           /\ parsed' = [parsed EXCEPT ![j] = @ \o r.new_content]
           /\ monPc' = [monPc EXCEPT ![j] =
                  after_parse(parse_log_content(r.new_content))]
    /\ UNCHANGED <<offVars, op, entries, coVars, procVars, stop_event,
                   listener, cleanVars>>

\* One cycle of the loop: tail_log_file, then either parse_log_content (and
\* a snapshot to hand over) or the idle count and the give-up test, then
\* time.sleep(0.5).  idle_cap bounds the idle cycles in a row.
MonRead(j, idle_cap) ==
    /\ monPc[j] = "loop"
    /\ ~stop_event[j]
    /\ \E read_error \in BOOLEAN :
         LET r == tail_log_file(logExists[j], log[j], last_position[j],
                                read_error)
             w == Bump(wait_count[j])
         IN  /\ r.new_content = <<>> => wait_count[j] < idle_cap
             /\ IF r.new_content # <<>>
                THEN /\ new_content' = [new_content EXCEPT ![j] = r.new_content]
                     /\ last_position' =
                            [last_position EXCEPT ![j] = r.new_position]
                     /\ wait_count' = [wait_count EXCEPT ![j] = 0]
                     /\ parsed' = [parsed EXCEPT ![j] = @ \o r.new_content]
                     /\ monPc' = [monPc EXCEPT ![j] =
                            after_parse(parse_log_content(r.new_content))]
                ELSE IF give_up(w, r.new_position)
                THEN /\ monPc' = [monPc EXCEPT ![j] = "dead"]
                     /\ last_position' = [last_position EXCEPT ![j] = 0]
                     /\ wait_count' = [wait_count EXCEPT ![j] = 0]
                     /\ new_content' = [new_content EXCEPT ![j] = <<>>]
                     /\ UNCHANGED parsed
                ELSE /\ new_content' = [new_content EXCEPT ![j] = r.new_content]
                     /\ last_position' =
                            [last_position EXCEPT ![j] = r.new_position]
                     /\ wait_count' = [wait_count EXCEPT ![j] = w]
                     /\ UNCHANGED <<monPc, parsed>>
    /\ UNCHANGED <<offVars, op, entries, coVars, procVars, stop_event,
                   listener, cleanVars>>

\* The cycle in a run where few idle cycles pass between two events
MonCycle(j) == MonRead(j, MaxIdle)

\* The cycle in a run where the monitor may idle until it gives up
MonCycleIdle(j) == MonRead(j, max_wait + 1)

\* app.call_from_thread(progress_modal.update_from_progress_data, ...): the
\* thread waits until the event loop has run the call
MonDeliver(j) ==
    /\ monPc[j] = "deliver"
    /\ EventLoopFree
    /\ listener' = update_from_progress_data(
                        listener, parse_log_content(new_content[j])[1], j)
    /\ monPc' = [monPc EXCEPT ![j] = "refresh"]
    /\ UNCHANGED <<offVars, op, entries, coVars, procVars, stop_event,
                   last_position, wait_count, new_content, parsed,
                   cleanVars>>

\* The failed call with no `except` around the cycle: the exception ends the
\* thread
MonDeliverRaises_Uncaught(j) ==
    /\ monPc[j] = "deliver"
    /\ EventLoopFree
    /\ ~onScreen
    /\ monPc' = [monPc EXCEPT ![j] = "dead"]
    /\ UNCHANGED <<offVars, op, entries, coVars, procVars, stop_event,
                   last_position, wait_count, new_content, listener, parsed,
                   cleanVars>>

\* The same call on a modal that is no longer on the screen: query_one
\* raises, the thread's `except` logs it and sleeps
MonDeliverRaises(j) ==
    /\ monPc[j] = "deliver"
    /\ EventLoopFree
    /\ ~onScreen
    /\ monPc' = [monPc EXCEPT ![j] = "loop"]
    /\ UNCHANGED <<offVars, op, entries, coVars, procVars, stop_event,
                   last_position, wait_count, new_content, listener, parsed,
                   cleanVars>>

\* app.call_from_thread(app.refresh), then time.sleep(0.5)
MonRefresh(j) ==
    /\ monPc[j] = "refresh"
    /\ EventLoopFree
    /\ monPc' = [monPc EXCEPT ![j] = "loop"]
    /\ UNCHANGED <<offVars, op, entries, coVars, procVars, stop_event,
                   last_position, wait_count, new_content, listener, parsed,
                   cleanVars>>

\* ------------------------------------------------------- specification

Coordinator ==
    \/ CoBegin
    \/ CoLaunch
    \/ CoLaunchFail
    \/ CoCancelObserved
    \/ CoPollRunning
    \/ CoPollExited
    \/ CoWake
    \/ CoCancelled
    \/ CoFailed
    \/ CoNext
    \/ CoCompleted
    \/ CoDeleteOk
    \/ CoDeleteFail

Next ==
    \/ Coordinator
    \/ Cancel
    \/ \E j \in ItemIds : ProcCreateLog(j)
    \/ \E j \in ItemIds : ProcAppend(j)
    \/ \E j \in ItemIds : ProcExit(j)
    \/ \E j \in ItemIds : MonExit(j)
    \/ \E j \in ItemIds : MonCycle(j)
    \/ \E j \in ItemIds : MonDeliver(j)
    \/ \E j \in ItemIds : MonDeliverRaises(j)
    \/ \E j \in ItemIds : MonRefresh(j)

\* The run until it returns, with what runs beside it.  What comes after the
\* return (the answer to the cleanup prompt) is in OneItemSpec.
Spec == Init /\ [][Next]_vars

\* What the scheduling guarantees: the coroutine of the run is resumed by the
\* event loop whenever it can go on, a monitor thread that finds its
\* stop_event set ends, and (the premise of the termination claim) every
\* rclone child ends.  Nothing is assumed of the caller, of the log, or of a
\* monitor thread's other steps.
Fairness ==
    /\ WF_vars(Coordinator)
    /\ \A j \in ItemIds : WF_vars(ProcExit(j))
    /\ \A j \in ItemIds : WF_vars(MonExit(j))

FairSpec == Spec /\ Fairness

\* The monitor threads are scheduled as well: a call handed to
\* app.call_from_thread is run by the event loop once it is free, which it
\* stays after the run has returned
MonitorFairness ==
    /\ \A j \in ItemIds : WF_vars(MonDeliver(j) \/ MonDeliverRaises(j))
    /\ \A j \in ItemIds : WF_vars(MonRefresh(j))

\* ---- a copy of two files with every thread scheduled
StopInit ==
    /\ Init
    /\ op = "copy"
    /\ Len(entries) = 2
    /\ \A j \in Items : ~entries[j].is_dir

StopNext ==
    \/ CoBegin
    \/ CoLaunch
    \/ CoLaunchFail
    \/ CoCancelObserved
    \/ CoPollRunning
    \/ CoPollExited
    \/ CoWake
    \/ CoCancelled
    \/ CoFailed
    \/ CoNext
    \/ CoCompleted
    \/ Cancel
    \/ \E j \in ItemIds : ProcCreateLog(j)
    \/ \E j \in ItemIds : ProcAppend(j)
    \/ \E j \in ItemIds : ProcExit(j)
    \/ \E j \in ItemIds : MonExit(j)
    \/ \E j \in ItemIds : MonCycle(j)
    \/ \E j \in ItemIds : MonDeliver(j)
    \/ \E j \in ItemIds : MonDeliverRaises(j)
    \/ \E j \in ItemIds : MonRefresh(j)

StopSpec == StopInit /\ [][StopNext]_vars /\ Fairness /\ MonitorFairness

\* The run has returned (or raised)
Done == pc = "done"

\* ---- a run of one copied or moved item, followed to the end: its monitor
\* ---- may idle until it gives up, and the cleanup prompt is answered
OneItemInit ==
    /\ RunInit
    /\ op \in {"copy", "move"}
    /\ Len(entries) = 1
    /\ dst_panel \in [remote : {"remote"}, current_path : DstPaths]
    /\ ParseOff
    /\ RetOff
    /\ LineOff

OneItemNext ==
    \/ CoBegin
    \/ CoLaunch
    \/ CoLaunchFail
    \/ CoCancelObserved
    \/ CoPollRunning
    \/ CoPollExited
    \/ CoWake
    \/ CoCancelled
    \/ CoFailed
    \/ CoCompleted
    \/ Cancel
    \/ handle_cleanup
    \/ ProcCreateLog(1)
    \/ ProcAppend(1)
    \/ ProcExit(1)
    \/ MonExit(1)
    \/ MonCycleIdle(1)
    \/ MonDeliver(1)
    \/ MonDeliverRaises(1)
    \/ MonRefresh(1)

\* ---- a run of two copied or moved items with the cleanup prompt answered
TwoItemInit ==
    /\ Init
    /\ op \in {"copy", "move"}
    /\ Len(entries) = 2

TwoItemNext ==
    \/ CoBegin
    \/ CoLaunch
    \/ CoLaunchFail
    \/ CoCancelObserved
    \/ CoPollRunning
    \/ CoPollExited
    \/ CoWake
    \/ CoCancelled
    \/ CoFailed
    \/ CoNext
    \/ CoCompleted
    \/ Cancel
    \/ handle_cleanup
    \/ \E j \in ItemIds : ProcCreateLog(j)
    \/ \E j \in ItemIds : ProcAppend(j)
    \/ \E j \in ItemIds : ProcExit(j)
    \/ \E j \in ItemIds : MonExit(j)
    \/ \E j \in ItemIds : MonCycle(j)
    \/ \E j \in ItemIds : MonDeliver(j)
    \/ \E j \in ItemIds : MonDeliverRaises(j)
    \/ \E j \in ItemIds : MonRefresh(j)

TwoItemSpec == TwoItemInit /\ [][TwoItemNext]_vars

\* The monitor thread is scheduled: it goes through its cycle again and again
\* as long as its stop_event is not set.
OneItemSpec == OneItemInit /\ [][OneItemNext]_vars /\ WF_vars(MonCycleIdle(1))

\* ---- the parser loop taken alone: the body of monitor_progress_log's cycle
\* ---- (a chunk arrives, parse_log_content, update_from_progress_data) on
\* ---- chunks of every shape
\* lines of a chunk
MaxChunk == 3
ParserLines ==
    {TransferredLine(1), FilesLine(1), HeaderLine,
     FileLine("a", 1), FileLine("a", 2), FileLine("b", 1), OtherLine}
Chunks == UNION {[1..n -> ParserLines] : n \in 1..MaxChunk}

runVars == <<op, entries, coVars, procVars, stop_event, monVars, cleanVars,
            dst_panel, dst_path>>

ParserInit ==
    /\ RunInit
    /\ op = "copy"
    /\ Len(entries) = 1
    /\ ~entries[1].is_dir
    /\ ppc = "tail"
    /\ chunk = <<>>
    /\ progress_data = None
    /\ display = DisplayInit
    /\ dst_panel = [remote |-> "remote", current_path |-> <<>>]
    /\ RetOff
    /\ LineOff

\* new_content, last_position = tail_log_file(...) with `if new_content:` true
PTail ==
    /\ ppc = "tail"
    /\ chunk' \in Chunks
    /\ ppc' = "parse"
    /\ UNCHANGED <<progress_data, display, runVars, retVars, lineVars>>

\* progress_data = progress_parser.parse_log_content(new_content)
PParse ==
    /\ ppc = "parse"
    /\ progress_data' = parse_log_content(chunk)
    /\ ppc' = IF after_parse(progress_data') = "deliver"
              THEN "deliver" ELSE "tail"
    /\ UNCHANGED <<chunk, display, runVars, retVars, lineVars>>

\* app.call_from_thread(progress_modal.update_from_progress_data,
\* progress_data, file_num)
PDeliver ==
    /\ ppc = "deliver"
    /\ display' = update_from_progress_data(display, progress_data[1], 1)
    /\ ppc' = "tail"
    /\ UNCHANGED <<chunk, progress_data, runVars, retVars, lineVars>>

ParserNext == PTail \/ PParse \/ PDeliver

ParserSpec == ParserInit /\ [][ParserNext]_vars

\* ------------------------------------------- the retention pass taken alone
\* The state a copy or move finds the logs directory in when it starts, and
\* the configured retention, drawn from bounded sets.
KeepCounts == (-1)..MaxKeep

RetentionInit ==
    /\ RunInit
    /\ op = "copy"
    /\ Len(entries) = 1
    /\ ~entries[1].is_dir
    /\ dst_panel = [remote |-> "remote", current_path |-> <<>>]
    /\ ParseOff
    /\ LineOff
    /\ logs_dir \in {None} \cup {Some(files) : files \in SUBSET LogFiles}
    /\ keep_count \in KeepCounts
    /\ rpc = "ready"
    /\ logs_before = None
    /\ log_errors = {}

\* rclone_wrapper.cleanup_old_logs("logs", progress_log_retention) as the
\* coroutine calls it before its loop; any of the files may resist os.remove
RetentionPass ==
    /\ rpc = "ready"
    /\ \E undeletable \in SUBSET (IF logs_dir = None THEN {} ELSE logs_dir[1]) :
          LET pass == cleanup_old_logs(logs_dir, keep_count, undeletable)
          IN  /\ logs_dir' = pass.dir
              /\ log_errors' = pass.errors
              /\ raised' = pass.raised
    /\ logs_before' = logs_dir
    /\ rpc' = "done"
    /\ UNCHANGED <<keep_count, parseVars, lineVars, op, entries, pc, i,
                   return_code, modal, onScreen, status, refreshed, procVars,
                   stop_event, monVars, cleanVars, dst_panel, dst_path>>

RetentionNext == RetentionPass

RetentionSpec == RetentionInit /\ [][RetentionNext]_vars

\* ----------------------------------- the parser's loop body taken alone
\* Lines as rclone writes them with --stats-one-line off, and lines that
\* only look like them
OverallLine ==
    <<"Transferred:", "15.031", "MiB", "/", "233.367", "MiB", ",", "6", "%",
      ",", "817.606", "KiB/s", ",", "ETA", "4m33s">>
OverallLineEnd ==
    <<"INFO", ":", "Transferred:", "233.367", "MiB", "/", "233.367", "MiB",
      ",", "1", "%", ",", "1", "KiB/s", ",", "ETA", "0s">>
OverallLineUnknown ==
    <<"Transferred:", "0", "B", "/", "0", "B", ",", "-", ",", "0", "B/s",
      ",", "ETA", "-">>
FilesCountLine == <<"Transferred:", "0", "/", "1", ",", "0", "%">>
FilesCountLineEnd == <<"INFO", ":", "Transferred:", "1", "/", "6", ",", "1", "%">>
TransferringLine == <<"Transferring:">>
FileLineA ==
    <<"*", "a", ":", "6", "%", "/", "233.367Mi", ",", "817.618Ki/s", ",",
      "4m33s">>
FileLineB == <<"*", "b", ":", "1", "%", "/", "1Ki", ",", "1Ki/s", ",", "0s">>
ChecksLine == <<"Checks:", "0", "/", "0", ",", "-">>
ElapsedLine == <<"Elapsed", "time:", "1.0s">>

RawLines ==
    {OverallLine, OverallLineEnd, OverallLineUnknown, FilesCountLine,
     FilesCountLineEnd, TransferringLine, FileLineA, FileLineB, ChecksLine,
     ElapsedLine}

LineInit ==
    /\ RunInit
    /\ op = "copy"
    /\ Len(entries) = 1
    /\ ~entries[1].is_dir
    /\ dst_panel = [remote |-> "remote", current_path |-> <<>>]
    /\ ParseOff
    /\ RetOff
    /\ lpc = "ready"
    /\ raw_line \in RawLines
    /\ scan = ScanInit
    /\ scan_before = ScanInit
    /\ SplitOff

\* line = lines[i].strip() and the branch the line takes
ParseLine ==
    /\ lpc = "ready"
    /\ scan_before' = scan
    /\ scan' = parse_line(scan, raw_line)
    /\ lpc' = "done"
    /\ UNCHANGED <<raw_line, split, snapshots, runVars, parseVars, retVars>>

\* i += 1: the next line of the chunk
NextLine ==
    /\ lpc = "done"
    /\ raw_line' \in RawLines
    /\ lpc' = "ready"
    /\ UNCHANGED <<scan, scan_before, split, snapshots, runVars, parseVars,
                   retVars>>

LineNext == ParseLine \/ NextLine

LineSpec == LineInit /\ [][LineNext]_vars

\* ---- a line of the log that two consecutive tail reads return in two parts
\* Where a read may end inside a piece of a line: the two fragments
Fragments(piece) ==
    CASE piece = "4m33s"         -> {<<"4m", "33s">>}
      [] piece = "Transferred:"  -> {<<"Transf", "erred:">>}
      [] piece = "Transferring:" -> {<<"Transf", "erring:">>}
      [] piece = "KiB/s"         -> {<<"KiB", "/s">>}
      [] piece = "1.0s"          -> {<<"1.", "0s">>}
      [] OTHER                   -> {}

\* f.seek(last_position); f.read() twice over one line that rclone is still
\* writing at the first read: the first read ends between two pieces of the
\* line or inside one, the second returns the rest
Splits(t) ==
    {<<SubSeq(t, 1, k), SubSeq(t, k + 1, Len(t))>> : k \in 0..Len(t)}
    \cup UNION {{<<SubSeq(t, 1, k - 1) \o <<f[1]>>,
                   <<f[2]>> \o SubSeq(t, k + 1, Len(t))>> :
                    f \in Fragments(t[k])} : k \in 1..Len(t)}

\* parse_log_content over the lines of one read, field by field
RECURSIVE scan_lines(_, _)
scan_lines(sc, lines) ==
    IF lines = <<>> THEN sc
    ELSE scan_lines(parse_line(sc, Head(lines)), Tail(lines))
parse_content(lines) ==
    LET sc == scan_lines(ScanInit, lines)
        progress ==
            IF sc.transferring_files # <<>>
            THEN [sc.progress EXCEPT
                     !.transferring_files = sc.transferring_files]
            ELSE sc.progress
    IN  IF sc.found_any THEN Some(progress) ELSE None

SplitInit ==
    /\ RunInit
    /\ op = "copy"
    /\ Len(entries) = 1
    /\ ~entries[1].is_dir
    /\ dst_panel = [remote |-> "remote", current_path |-> <<>>]
    /\ ParseOff
    /\ RetOff
    /\ lpc = "tail1"
    /\ raw_line \in RawLines
    /\ split \in Splits(raw_line)
    /\ scan = ScanInit
    /\ scan_before = ScanInit
    /\ snapshots = <<>>

\* One monitor cycle: `if new_content:` and the parse of what was read
TailRead(k, next) ==
    /\ snapshots' = IF split[k] = <<>> THEN snapshots
                    ELSE Append(snapshots, parse_content(<<split[k]>>))
    /\ lpc' = next
    /\ UNCHANGED <<raw_line, split, scan, scan_before, runVars, parseVars,
                   retVars>>

\* The read that ends inside the line
TailFirst == lpc = "tail1" /\ TailRead(1, "tail2")

\* The next read, from the position the first one ended at
TailSecond == lpc = "tail2" /\ TailRead(2, "read")

SplitNext == TailFirst \/ TailSecond

SplitSpec == SplitInit /\ [][SplitNext]_vars

\* ================================================================ claims

Launched(j) == proc[j] # "none"
MonitorAlive(j) == monPc[j] \in {"loop", "deliver", "refresh"}
\* The exit status the run obtained for item j is zero / is non-zero
PolledZero(j) == return_code[j] = Some(0)
PolledNonZero(j) == return_code[j] # None /\ return_code[j] # Some(0)

\* C1: in a copy or move run the processes are launched in request order, the
\* process of a later item only after the process of every earlier item has
\* exited with status zero, and never two of them run at the same time.
C1_SequentialLaunch ==
    op # "delete" =>
        /\ \A j, k \in ItemIds :
              (j < k /\ Launched(k)) =>
                  proc[j] = "exited" /\ exitCode[j] = Some(0)
        /\ Cardinality({j \in ItemIds : Running(j)}) <= 1

\* C1 witness: the second item's process runs after the first one's exit
C1_Witness == op = "copy" /\ Running(2) /\ exitCode[1] = Some(0)

\* C2: when item k is the first item whose process is found to have exited
\* non-zero, every item before k was found to have exited zero (transferred),
\* no process is launched for any item after k, and the run ends as failed
\* naming item k, never as completed.
C2_FirstFailureHalts ==
    /\ \A k \in ItemIds :
          PolledNonZero(k) =>
              /\ \A j \in ItemIds : j < k => PolledZero(j) /\ exitCode[j] = Some(0)
              /\ \A j \in ItemIds : j > k => ~Launched(j)
              /\ status.kind \in {"none", "failed"}
              /\ Done => status = [kind |-> "failed", arg |-> entries[k].name]
    /\ status.kind = "failed" =>
          \E k \in Items : PolledNonZero(k) /\ status.arg = entries[k].name

\* C2 witness: item 2 of a copy failed after item 1 was transferred
C2_Witness ==
    /\ Done /\ op = "copy"
    /\ PolledZero(1) /\ PolledNonZero(2)
    /\ status = [kind |-> "failed", arg |-> entries[2].name]

\* C3: once cancellation has been requested (an item is then in flight), no
\* process is launched for any remaining item and the run ends with the
\* outcome cancelled, not failed and not completed.
C3_CancelHalts ==
    modal.cancelled =>
        /\ modal.process = i
        /\ \A j \in ItemIds : j > i => ~Launched(j)
        /\ pc \in {"sleep", "poll", "join_cancel", "done"}
        /\ status.kind \in {"none", "cancelled"}
        /\ ~raised
        /\ Done => status.kind = "cancelled"

\* C3 witness: a run cancelled during its first item, with an item remaining
C3_Witness ==
    /\ Done /\ modal.cancelled /\ status.kind = "cancelled"
    /\ i = 1 /\ Len(entries) = 2 /\ ~Launched(2)

\* C4: in the step that begins the cleanup scan, process.kill() has already
\* been called on the in-flight process and the monitor's stop_event is
\* already set; and every cancelled run makes that scan.
C4_KillAndStopBeforeScan ==
    [][ /\ (cleanup = "none" /\ cleanup' # "none") =>
              killReq[i] /\ stop_event[i] /\ modal.cancelled
        /\ status'.kind = "cancelled" => cleanup' # "none" ]_vars

\* C4 witness: a cancelled run after its scan
C4_Witness ==
    status.kind = "cancelled" /\ cleanup # "none" /\ killReq[i] /\ stop_event[i]

\* What the scan is to find according to the cleaner's contract: for a
\* directory item every non-directory entry of the subtree whose name ends in
\* .partial, for a file item every entry of the directory itself whose name
\* begins with "<filename>." and ends in .partial.
ArtifactsOf(fs, filename, is_directory) ==
    IF is_directory
    THEN {e \in fs : ~e.is_dir /\ e.name.ext = "partial"}
    ELSE {e \in fs : e.dir = <<>> /\ e.name.stem = filename
                      /\ e.name.ext = "partial"}

\* C5 as stated: after the cancel branch the process no longer runs and the
\* prompt lists every name ending in .partial under the destination.
C5_AsStated ==
    cleanup # "none" =>
        /\ ~Running(i)
        /\ partial_files = {e \in dst_fs : endswith_partial(e.name)}

\* C5 as amended: cancelling a transfer whose process is in flight results in
\* a kill request to that process before the cleanup scan (the process may
\* still be exiting while the scan runs), and in a prompt, shown only when
\* something was found, that lists for a directory item every non-directory
\* entry of the destination subtree whose name ends in .partial and for a
\* file item every entry of the destination directory whose name begins with
\* "<filename>." and ends in .partial.
C5_CancelKillsAndLists ==
    cleanup # "none" =>
        /\ killReq[i]
        /\ proc[i] = "exited" \/ killReq[i]
        /\ partial_files =
              ArtifactsOf(dst_fs, entries[i].name, entries[i].is_dir)
        /\ (cleanup = "prompt") <=> (partial_files # {})

\* C5 witness: a file item cancelled with its own partial file and another
\* one in the destination directory; the prompt lists only its own
C5_Witness ==
    /\ cleanup = "prompt" /\ ~entries[i].is_dir
    /\ Cardinality(partial_files) = 1
    /\ Cardinality({e \in dst_fs : endswith_partial(e.name)}) > 1

C7_AsStated ==
    /\ \A j, k \in ItemIds : (j < k /\ Launched(k)) => ~MonitorAlive(j)
    /\ Cardinality({j \in ItemIds : MonitorAlive(j)}) <= 1

\* C8: every run reaches a terminal outcome, also when a monitor does not
\* observe its stop signal: the join is bounded and the run goes on.
C8_RunTerminates == <>(pc = "done")

\* C8 witness: the run has ended while the monitor of its item, stop_event
\* set, still waits for the event loop
C8_Witness == Done /\ stop_event[i] /\ WaitsForEventLoop(i)

\* C9: a run reports success exactly when the exit status it obtained for
\* every item is zero, and the count it reports is the number of items.
C9_SuccessIffAllZero ==
    /\ Done => ((status.kind = "completed") <=> (\A j \in Items : PolledZero(j)))
    /\ status.kind = "completed" =>
          /\ Done
          /\ status.arg = Len(entries)
          /\ \A j \in Items : proc[j] = "exited" /\ exitCode[j] = Some(0)

\* C9 witness: a move of two items reported as completed
C9_Witness ==
    Done /\ op = "move" /\ Len(entries) = 2
    /\ status = [kind |-> "completed", arg |-> 2]

\* C10: over the tail reads of one monitor the offset never decreases, and
\* after each read it is the prior offset plus the bytes that read returned.
C10_CursorAdvancesByBytesRead ==
    [][ \A j \in ItemIds :
          /\ (MonitorAlive(j) /\ MonitorAlive(j)') =>
                last_position'[j] >= last_position[j]
          /\ MonCycle(j) =>
                last_position'[j] = last_position[j] + Len(new_content'[j]) ]_vars

\* C10 witness: a second read that returned one line after a first one
C10_Witness ==
    \E j \in ItemIds :
        MonitorAlive(j) /\ last_position[j] = 2 /\ Len(new_content[j]) = 1

\* C11: with the log only appended to, the chunks handed to the parser, one
\* after the other in the order they were handed over, are a prefix of the
\* log file (file order, no byte twice), and a living monitor's offset is
\* the length of what it has handed over.
C11_ChunksArePrefixOfLog ==
    \A j \in ItemIds :
        /\ Len(parsed[j]) <= Len(log[j])
        /\ parsed[j] = SubSeq(log[j], 1, Len(parsed[j]))
        /\ MonitorAlive(j) => last_position[j] = Len(parsed[j])

\* C11 witness: two lines handed over in two chunks, the second one appended
\* after the first was read
C11_Witness ==
    \E j \in ItemIds :
        MonitorAlive(j) /\ Len(parsed[j]) = 2 /\ Len(new_content[j]) = 1
        /\ parsed[j] = log[j]

\* C12: a tail read of a log file that does not exist, or that cannot be
\* read, answers empty content and the offset it was given, whatever that
\* offset is, and the monitor thread goes on.
C12_UnreadableLogReadsEmpty ==
    \A j \in ItemIds : \A read_error \in BOOLEAN :
        (~logExists[j] \/ read_error) =>
            tail_log_file(logExists[j], log[j], last_position[j], read_error)
              = [new_content |-> <<>>, new_position |-> last_position[j]]

\* C12 witness: a monitor that has read a log file that does not exist yet
\* and is in its loop
C12_Witness ==
    \E j \in ItemIds :
        monPc[j] = "loop" /\ ~logExists[j] /\ wait_count[j] = 1
        /\ last_position[j] = 0

\* A chunk with a line of one of the three progress shapes
Recognized(lines) ==
    \E k \in DOMAIN lines : lines[k].kind \in {"transferred", "files", "file"}

\* C13: a monitor whose log has produced no bytes stops on its own, its stop
\* event not set, at the empty read that makes more than max_wait of them in
\* a row: it never stands in its loop at offset 0 with more than max_wait
\* idle cycles counted, it ends without a stop only there, and standing at
\* offset 0 it comes to read bytes, to be stopped or to end.
C13_GivesUpAfterMaxWait ==
    /\ [](\A j \in ItemIds :
            (monPc[j] = "loop" /\ last_position[j] = 0) =>
                wait_count[j] <= max_wait)
    /\ [][ \A j \in ItemIds :
            (MonitorAlive(j) /\ monPc'[j] = "dead" /\ ~stop_event[j]) =>
                /\ wait_count[j] = max_wait
                /\ last_position[j] = 0
                /\ parsed[j] = <<>> ]_vars
    /\ \A j \in ItemIds :
          (monPc[j] = "loop" /\ last_position[j] = 0) ~>
              (monPc[j] = "dead" \/ last_position[j] > 0 \/ stop_event[j])

\* C13 witness: a monitor that has ended while its stop event is not set
C13_Witness ==
    \E j \in ItemIds :
        monPc[j] = "dead" /\ ~stop_event[j] /\ parsed[j] = <<>>
        /\ Running(j)

\* C14: the monitor hands a snapshot to the listener only in a cycle whose
\* tail read returned bytes with a line of a progress shape in them, the
\* snapshot parsed from these bytes; what the listener shows changes in no
\* other step.
C14_DeliversOnlyParsedData ==
    /\ [](\A j \in ItemIds :
            monPc[j] = "deliver" =>
                /\ new_content[j] # <<>>
                /\ Recognized(new_content[j])
                /\ parse_log_content(new_content[j]) # None)
    /\ [][ listener' # listener =>
            \E j \in ItemIds :
                /\ monPc[j] = "deliver" /\ monPc'[j] = "refresh"
                /\ listener' = update_from_progress_data(
                       listener, parse_log_content(new_content[j])[1], j) ]_vars

\* C14 witness: after a snapshot of item 1 was shown, a cycle read a chunk
\* of unrecognized lines only and went on, the listener as it was
C14_Witness ==
    /\ listener.file_num = 1 /\ listener.overall = 1
    /\ monPc[1] = "loop" /\ new_content[1] = <<OtherLine>>
    /\ Len(parsed[1]) = 2

\* C15: for a chunk with no overall-transferred line, no files-count line
\* and no per-file line, the parser returns no snapshot.
C15_UnrecognizedChunkNoSnapshot ==
    (ppc # "parse" /\ chunk # <<>> /\ ~Recognized(chunk)) =>
        progress_data = None /\ ppc = "tail"

\* C15 witness: a chunk of a "Transferring:" header and log chatter parsed
\* to no snapshot while the listener shows an earlier one
C15_Witness ==
    /\ ppc = "tail" /\ progress_data = None
    /\ Len(chunk) = 2 /\ chunk[1] = HeaderLine /\ chunk[2] = OtherLine
    /\ display.files # <<>>

\* The chunk in hand has been parsed: progress_data is what
\* parse_log_content returned for it
ChunkParsed == ppc # "parse" /\ chunk # <<>>

\* Some line of the chunk reports the overall fields / the files count / the
\* transferring-files list (a per-file line, or the header that restarts it)
ReportsTransferred(lines) ==
    \E k \in DOMAIN lines : lines[k].kind = "transferred"
ReportsFiles(lines) ==
    \E k \in DOMAIN lines : lines[k].kind = "files"
ReportsPerFile(lines) ==
    \E k \in DOMAIN lines : lines[k].kind \in {"file", "header"}

\* C16 as stated: a snapshot about to be handed over, when an earlier one is
\* shown, has in every field that no line of its chunk reports the value of
\* the earlier snapshot.
C16_AsStated ==
    (ppc = "deliver" /\ display.file_num # 0) =>
        /\ ~ReportsTransferred(chunk) =>
              progress_data[1].transferred_str = display.overall
        /\ ~ReportsFiles(chunk) =>
              progress_data[1].files_transferred = display.counter
        /\ ~ReportsPerFile(chunk) =>
              progress_data[1].transferring_files = display.files

\* Index of the last "Transferring:" header of the chunk (0: none), and the
\* per-file lines of a filename after it
Max(S) == CHOOSE x \in S : \A y \in S : y <= x
LastHeader(lines) ==
    Max({0} \cup {k \in DOMAIN lines : lines[k].kind = "header"})
FileLinesOf(lines, filename) ==
    {k \in DOMAIN lines : /\ k > LastHeader(lines)
                          /\ lines[k].kind = "file"
                          /\ lines[k].filename = filename}

\* C17: the transferring-files list of a snapshot holds at most one entry
\* per filename, and the entry carries the values of the last per-file line
\* of that filename in the chunk.
C17_OneEntryPerFilenameLastWins ==
    (ChunkParsed /\ progress_data # None) =>
        LET tf == progress_data[1].transferring_files IN
        /\ \A k1, k2 \in DOMAIN tf :
              tf[k1].filename = tf[k2].filename => k1 = k2
        /\ \A k \in DOMAIN tf :
              /\ FileLinesOf(chunk, tf[k].filename) # {}
              /\ tf[k].percentage =
                    chunk[Max(FileLinesOf(chunk, tf[k].filename))].val
        /\ \A k \in DOMAIN chunk :
              FileLinesOf(chunk, chunk[k].filename) # {} =>
                  \E m \in DOMAIN tf : tf[m].filename = chunk[k].filename

\* C17 witness: two per-file lines of one filename with different values in
\* one chunk, one entry with the values of the second
C17_Witness ==
    /\ ChunkParsed /\ progress_data # None
    /\ chunk = <<FileLine("a", 1), FileLine("a", 2)>>
    /\ progress_data[1].transferring_files = <<FileProgress("a", 2)>>

\* C18 as stated: the list is ordered by the first appearance of each
\* filename.
C18_AsStated ==
    (ChunkParsed /\ progress_data # None) =>
        LET tf == progress_data[1].transferring_files IN
        \A k1, k2 \in DOMAIN tf :
            k1 < k2 =>
                \A m2 \in FileLinesOf(chunk, tf[k2].filename) :
                    \E m1 \in FileLinesOf(chunk, tf[k1].filename) : m1 < m2

\* C18 as amended: within one parse pass the transferring-files list is
\* ordered by the last appearance of each filename: a later per-file line
\* for an already-listed filename removes that entry and appends the new one
\* at the end of the list; the other entries keep their relative order.
C18_OrderedByLastAppearance ==
    (ChunkParsed /\ progress_data # None) =>
        LET tf == progress_data[1].transferring_files IN
        \A k1, k2 \in DOMAIN tf :
            k1 < k2 =>
                Max(FileLinesOf(chunk, tf[k1].filename))
                  < Max(FileLinesOf(chunk, tf[k2].filename))

\* C18 witness: a, b, a in one chunk gives the list b, a
C18_Witness ==
    /\ ChunkParsed /\ progress_data # None
    /\ chunk = <<FileLine("a", 1), FileLine("b", 1), FileLine("a", 2)>>
    /\ progress_data[1].transferring_files
          = <<FileProgress("b", 1), FileProgress("a", 2)>>

\* The chunk has a "Transferring:" header with no per-file line after it
HeaderThenNoFiles(lines) ==
    \E k \in DOMAIN lines :
        /\ lines[k].kind = "header"
        /\ \A m \in DOMAIN lines : m > k => lines[m].kind # "file"

\* C19 as stated: a chunk with a header followed by no per-file line yields
\* a snapshot with an empty transferring-files list, and once the cycle is
\* through the listener shows no filenames.
C19_AsStated ==
    (ChunkParsed /\ HeaderThenNoFiles(chunk)) =>
        /\ progress_data # None
        /\ progress_data[1].transferring_files = <<>>
        /\ ppc = "tail" => display.files = <<>>

\* C19 as amended: a chunk that holds a "Transferring:" header followed by
\* no per-file line and, anywhere in it, at least one overall-transferred,
\* files-count or per-file line yields a snapshot whose transferring-files
\* list is empty, whatever was shown before, and its delivery empties the
\* listener's list of filenames; a chunk with such a header and no
\* recognized line yields no snapshot.
C19_HeaderEmptiesList ==
    (ChunkParsed /\ HeaderThenNoFiles(chunk)) =>
        IF Recognized(chunk)
        THEN /\ progress_data # None
             /\ progress_data[1].transferring_files = <<>>
             /\ ppc = "tail" => display.files = <<>>
        ELSE progress_data = None /\ ppc = "tail"

\* C19 witness: filenames are shown, and the snapshot about to be handed
\* over, of a chunk with a header and no per-file line after it, has none
C19_Witness ==
    /\ ppc = "deliver" /\ display.files # <<>>
    /\ HeaderThenNoFiles(chunk)
    /\ progress_data[1].transferring_files = <<>>

\* C20: delete_file is called on a partial file only after the caller has
\* confirmed the cleanup prompt; with the prompt declined, dismissed or not
\* answered no delete is issued, and a delete is issued only on files the
\* prompt listed.
C20_DeleteOnlyAfterConfirm ==
    /\ cleanup # "confirmed" => delete_issued = {} /\ deleted = {}
    /\ delete_issued \subseteq partial_files
    /\ deleted \subseteq delete_issued

\* C20 witness: a confirmed prompt of two partial files, a delete issued on
\* both
C20_Witness ==
    /\ cleanup = "confirmed" /\ Cardinality(partial_files) = 2
    /\ delete_issued = partial_files

\* ------------------------------------------------------------------ C21

\* C21 as stated: the cleaner lists, for a file item, exactly the entries of
\* the destination directory itself whose names begin with "<filename>." and
\* end in .partial, and for a directory item exactly the entries anywhere in
\* the destination subtree whose names end in .partial.
C21_AsStated ==
    cleanup # "none" =>
        partial_files =
            IF entries[i].is_dir
            THEN {e \in dst_fs : endswith_partial(e.name)}
            ELSE {e \in dst_fs : /\ e.dir = Root
                                 /\ startswith_dot(e.name, entries[i].name)
                                 /\ endswith_partial(e.name)}

\* C21 as amended: for a file item the cleaner lists exactly the entries
\* (files or directories) of the destination directory itself whose names
\* begin with "<filename>." and end in .partial; for a directory item it
\* lists exactly the entries that are not directories, anywhere in the
\* destination subtree, whose names end in .partial, whatever their prefix:
\* a directory is descended into and never listed, whatever its name.
C21_ListsByItemKind ==
    cleanup # "none" =>
        /\ entries[i].is_dir =>
              /\ \A e \in dst_fs :
                    e \in partial_files <=>
                        (~e.is_dir /\ endswith_partial(e.name))
              /\ partial_files \subseteq dst_fs
        /\ ~entries[i].is_dir =>
              /\ \A e \in dst_fs :
                    e \in partial_files <=>
                        /\ e.dir = Root
                        /\ startswith_dot(e.name, entries[i].name)
                        /\ endswith_partial(e.name)
              /\ partial_files \subseteq dst_fs

\* C21 witness: a directory item whose prompt lists a partial file lying in
\* a subdirectory and one of another prefix, while a directory of the
\* subtree whose own name ends in .partial is not listed
C21_Witness ==
    /\ cleanup = "prompt" /\ entries[i].is_dir
    /\ \E e \in partial_files : e.dir = SubDir
    /\ \E e \in partial_files : e.name.stem # entries[i].name
    /\ \E d \in dst_fs : d.is_dir /\ endswith_partial(d.name)
                         /\ d \notin partial_files

\* ------------------------------------------------------------------ C22

\* C22: during a confirmed cleanup a deletion that fails does not stop the
\* pass: a delete was attempted on every listed artifact, the ones deleted
\* are among them, and the count reported is the number of deletions that
\* succeeded (when none succeeded the report is the failure message, which
\* carries no count).
C22_EveryArtifactTriedCountIsSuccesses ==
    cleanup = "confirmed" =>
        /\ delete_issued = partial_files
        /\ deleted \subseteq partial_files
        /\ deleted # {} =>
              cleanup_report =
                  [kind |-> "deleted", arg |-> Cardinality(deleted)]
        /\ deleted = {} => cleanup_report.kind = "delete_failed"

\* C22 witness: a confirmed cleanup of three artifacts in which one deletion
\* failed and two succeeded; all three were tried and 2 is reported
C22_Witness ==
    /\ cleanup = "confirmed"
    /\ Cardinality(partial_files) = 3
    /\ delete_issued = partial_files
    /\ Cardinality(deleted) = 2
    /\ cleanup_report = [kind |-> "deleted", arg |-> 2]

\* ------------------------------------------------------------------ C23

\* The n most recently modified *.log files among `files`
NewestLogs(files, n) ==
    {f \in files :
        /\ f.is_log
        /\ Cardinality({g \in files : g.is_log /\ g.mtime > f.mtime}) < n}

LaunchFailed(k) == dst_path[k] # None /\ proc[k] = "none"

\* C24: when the launch of item k fails the exception has left the run at
\* once (the modal is off the screen and the coroutine has ended, with no
\* outcome message), no monitor thread was started for item k, and no
\* process is ever launched, nor a monitor started, for a later item.
C24_LaunchFailureHalts ==
    \A k \in 1..Len(entries) :
        LaunchFailed(k) =>
            /\ raised /\ pc = "done" /\ ~onScreen
            /\ i = k
            /\ status = NoStatus
            /\ monPc[k] = "none"
            /\ \A j \in (k + 1)..Len(entries) :
                  /\ proc[j] = "none" /\ monPc[j] = "none"
                  /\ dst_path[j] = None

\* C24 witness: the launch of the first of two items failed; the second was
\* never launched
C24_Witness ==
    /\ Len(entries) = 2 /\ LaunchFailed(1)
    /\ raised /\ proc[2] = "none"

\* ------------------------------------------------------------------ C25

\* A cycle of monitor j that read nothing although the log holds bytes past
\* its offset: the read raised inside tail_log_file
ReadErrorStep(j) ==
    /\ monPc[j] = "loop" /\ ~stop_event[j]
    /\ logExists[j] /\ last_position[j] < Len(log[j])
    /\ parsed'[j] = parsed[j]
    /\ wait_count'[j] # wait_count[j] \/ monPc'[j] # monPc[j]

\* A delivery of monitor j that raised: the thread is back at the head of
\* its loop without the refresh that follows a delivery
DeliverErrorStep(j) == monPc[j] = "deliver" /\ monPc'[j] = "loop"

\* C25: an error raised in a monitor cycle is absorbed inside the monitor.
\* A delivery that raises takes the thread back to the head of its loop; a
\* read that raises is completed as a cycle without new bytes (the offset
\* is kept, the cycle counts as idle and the thread ends only by its
\* give-up rule); neither changes anything of the coordinator, the
\* processes or the listener.  The run raises only when a launch failed,
\* and its outcome is cancelled only after a cancel request, failed only
\* after a non-zero exit status, completed only after every exit status
\* was zero.
C25_MonitorErrorsAbsorbed ==
    /\ [](/\ raised => \E k \in Items : LaunchFailed(k)
          /\ status.kind = "cancelled" => modal.cancelled
          /\ status.kind = "failed" => PolledNonZero(i)
          /\ status.kind = "completed" => \A k \in Items : PolledZero(k))
    /\ [][\A j \in Items :
            /\ (monPc[j] = "deliver" /\ monPc'[j] # "deliver") =>
                  monPc'[j] \in {"refresh", "loop"}
            /\ DeliverErrorStep(j) =>
                  UNCHANGED <<coVars, procVars, stop_event, listener,
                              last_position, wait_count>>
            /\ ReadErrorStep(j) =>
                  /\ UNCHANGED <<coVars, procVars, stop_event, listener>>
                  /\ \/ /\ monPc'[j] = "loop"
                        /\ last_position'[j] = last_position[j]
                     \/ /\ monPc'[j] = "dead"
                        /\ wait_count[j] >= max_wait
                        /\ last_position[j] = 0]_vars

\* C25 witness: the item's process exited with status 0 and the run ended
\* completed, while its monitor had a snapshot to hand over whose delivery
\* raised: nothing was ever delivered and the thread is back in its loop
C25_Witness ==
    /\ status.kind = "completed" /\ PolledZero(1)
    /\ monPc[1] = "loop"
    /\ Recognized(parsed[1])
    /\ listener.file_num = 0

\* ------------------------------------------------------------------ C26

Transfer == op \in {"copy", "move"}
Outcomes == {"cancelled", "failed", "completed"}

Delivery(j) == monPc[j] = "deliver" /\ monPc'[j] = "refresh"

\* C27 as stated: every snapshot handed to the modal carries the index of
\* the item in hand at that moment: none carries the index of an earlier
\* item once a later one has been launched, and none is handed over after
\* the run has ended.
C27_AsStated ==
    [][\A j \in ItemIds :
          Delivery(j) =>
              /\ listener'.file_num = j
              /\ j = i
              /\ ~Done]_vars

\* ------------------------------------------------------------------ C28

\* C28: a line that matches the overall-transferred pattern sets exactly the
\* five overall fields to its groups ("Transferred: 15.031 MiB / 233.367
\* MiB, 6%, 817.606 KiB/s, ETA 4m33s" gives percentage 6, transferred
\* "15.031 MiB", total "233.367 MiB", speed "817.606 KiB/s", ETA "4m33s")
\* and leaves the file counters and the transferring-files list as they
\* were.
C28_OverallLineSetsOverallFields ==
    lpc = "done" =>
        /\ raw_line = OverallLine =>
              /\ scan.progress =
                    [scan_before.progress EXCEPT
                        !.overall_percentage = 6,
                        !.transferred_str    = <<"15.031", "MiB">>,
                        !.total_str          = <<"233.367", "MiB">>,
                        !.overall_speed      = <<"817.606", "KiB/s">>,
                        !.overall_eta        = <<"4m33s">>]
              /\ scan.transferring_files = scan_before.transferring_files
              /\ scan.found_any
        /\ raw_line = OverallLineEnd =>
              /\ scan.progress =
                    [scan_before.progress EXCEPT
                        !.overall_percentage = 1,
                        !.transferred_str    = <<"233.367", "MiB">>,
                        !.total_str          = <<"233.367", "MiB">>,
                        !.overall_speed      = <<"1", "KiB/s">>,
                        !.overall_eta        = <<"0s">>]
              /\ scan.transferring_files = scan_before.transferring_files
              /\ scan.found_any

\* C28 witness: the example line parsed after a files-count line and a
\* per-file line of the same chunk; the counters 1 / 6 and the list stay
C28_Witness ==
    /\ lpc = "done" /\ raw_line = OverallLine
    /\ scan_before.progress.overall_percentage # 6
    /\ scan_before.progress.total_files = 6
    /\ scan_before.transferring_files # <<>>
    /\ scan.progress.overall_percentage = 6
    /\ scan.progress.total_files = 6
    /\ scan.transferring_files # <<>>

\* ------------------------------------------------------------------ C29

\* C29: a files-count line is never taken for an overall-transferred line:
\* it sets exactly files_transferred and total_files ("Transferred: 0 / 1,
\* 0%" gives 0 and 1) and leaves the five overall fields and the
\* transferring-files list as they were; and an overall-transferred line
\* leaves the two file counters as they were.
C29_FilesLineSetsFileCounters ==
    lpc = "done" =>
        /\ raw_line = FilesCountLine =>
              /\ scan.progress =
                    [scan_before.progress EXCEPT
                        !.files_transferred = 0, !.total_files = 1]
              /\ scan.transferring_files = scan_before.transferring_files
              /\ scan.found_any
        /\ raw_line = FilesCountLineEnd =>
              /\ scan.progress =
                    [scan_before.progress EXCEPT
                        !.files_transferred = 1, !.total_files = 6]
              /\ scan.transferring_files = scan_before.transferring_files
              /\ scan.found_any
        /\ raw_line \in {OverallLine, OverallLineEnd} =>
              /\ scan.progress.files_transferred =
                    scan_before.progress.files_transferred
              /\ scan.progress.total_files = scan_before.progress.total_files

\* C29 witness: the example line parsed after an overall line and another
\* files-count line of the same chunk; the counters become 0 / 1 and the
\* overall fields stay
C29_Witness ==
    /\ lpc = "done" /\ raw_line = FilesCountLine
    /\ scan_before.progress.transferred_str = <<"15.031", "MiB">>
    /\ scan_before.progress.total_files = 6
    /\ scan.progress.transferred_str = <<"15.031", "MiB">>
    /\ scan.progress.files_transferred = 0
    /\ scan.progress.total_files = 1

\* ------------------------------------------------------------------ C30

\* C30 as stated: the destination handed to rclone for a launched item is
\* "<remote>:<destination dir>/<item name>" for a directory and
\* "<remote>:<destination dir>" for a file.
C30_AsStated ==
    \A j \in Items :
        Launched(j) =>
            dst_path[j] =
                Some(IF entries[j].is_dir
                     THEN <<dst_panel.remote, ":">> \o dst_panel.current_path
                              \o <<"/">> \o Str(entries[j].name)
                     ELSE <<dst_panel.remote, ":">> \o dst_panel.current_path)

\* C30 as amended: the destination handed to rclone for a launched item is,
\* for a directory, "<remote>:<destination dir>/<item name>", and
\* "<remote>:<item name>" with no separator when the destination panel is
\* at the root of its remote; for a file it is "<remote>:<destination dir>",
\* which is "<remote>:" at the root.
C30_DestinationByItemKind ==
    \A j \in Items :
        Launched(j) =>
            LET remote == dst_panel.remote
                dir    == dst_panel.current_path
                name   == Str(entries[j].name)
            IN  /\ dst_path[j] # None
                /\ (entries[j].is_dir /\ dir # <<>>) =>
                      dst_path[j][1] = <<remote, ":">> \o dir \o <<"/">> \o name
                /\ (entries[j].is_dir /\ dir = <<>>) =>
                      dst_path[j][1] = <<remote, ":">> \o name
                /\ (~entries[j].is_dir /\ dir # <<>>) =>
                      dst_path[j][1] = <<remote, ":">> \o dir
                /\ (~entries[j].is_dir /\ dir = <<>>) =>
                      dst_path[j][1] = <<remote, ":">>

\* C30 witness: a directory item launched with the destination panel at the
\* root of its remote; the destination is the remote and the item's name
C30_Witness ==
    /\ Launched(1) /\ entries[1].is_dir
    /\ dst_panel.current_path = <<>>
    /\ dst_path[1] = Some(<<"remote", ":", "1">>)

\* ------------------------------------------------------------------ C31
\* The entries of the scanned destination that earlier items of the run were
\* transferred to (a directory item is scanned inside its own destination
\* directory, where no earlier item lies)
C31_EarlierDestinations ==
    IF i \in ItemIds /\ ~entries[i].is_dir
    THEN {e \in dst_fs : e.dir = Root /\ e.name.ext = ""
                          /\ \E j \in 1..(i - 1) : e.name.stem = entries[j].name}
    ELSE {}

C32_AsStated ==
    \A k \in 1..Len(snapshots) :
        \/ snapshots[k] = None
        \/ snapshots[k] = parse_content(<<raw_line>>)

\* ------------------------------------------------------------------ C33
\* C33: once the stop signal of a monitor is set, the monitor starts no new
\* cycle: it reads nothing more, it may only finish the cycle it is in (the
\* pending delivery, then the refresh, each at most once), and at its next
\* test of the signal it ends; and it does end.
C33_StopEndsMonitor ==
    /\ [][\A j \in ItemIds :
            stop_event[j] =>
                /\ parsed'[j] = parsed[j]
                /\ \/ monPc'[j] = monPc[j]
                   \/ monPc[j] = "deliver" /\ monPc'[j] \in {"refresh", "loop"}
                   \/ monPc[j] = "refresh" /\ monPc'[j] = "loop"
                   \/ monPc[j] = "loop" /\ monPc'[j] = "dead"]_vars
    /\ \A j \in ItemIds :
          (stop_event[j] /\ MonitorAlive(j)) ~> (monPc[j] = "dead")

\* C33 witness: the first monitor has ended on its stop signal after a last
\* delivery made while the second item's monitor, which had delivered
\* already, waits for its refresh
C33_Witness ==
    /\ stop_event[1] /\ monPc[1] = "dead"
    /\ monPc[2] = "refresh" /\ ~stop_event[2]
    /\ listener.file_num = 1

\* ------------------------------------------------------------------ C34
\* Filenames of the per-file lines of a chunk that stand before / after
\* line k
FilenamesBefore(lines, k) ==
    {lines[m].filename : m \in {n \in DOMAIN lines :
                                   n < k /\ lines[n].kind = "file"}}
FilenamesAfter(lines, k) ==
    {lines[m].filename : m \in {n \in DOMAIN lines :
                                   n > k /\ lines[n].kind = "file"}}

\* C34: in one parse pass a "Transferring:" header discards every per-file
\* entry gathered before it: the transferring-files list of the snapshot
\* holds exactly the filenames of the per-file lines that follow the last
\* header of the chunk, and none that only stood before it.
C34_HeaderDiscardsEarlierEntries ==
    (ChunkParsed /\ progress_data # None) =>
        LET tf == progress_data[1].transferring_files
            h  == LastHeader(chunk)
            listed == {tf[k].filename : k \in DOMAIN tf}
        IN  /\ listed = FilenamesAfter(chunk, h)
            /\ \A f \in FilenamesBefore(chunk, h) :
                  f \notin FilenamesAfter(chunk, h) => f \notin listed

\* C34 witness: a per-file line of a, then a header, then a per-file line
\* of b: the list holds b alone
C34_Witness ==
    /\ ChunkParsed /\ progress_data # None
    /\ chunk = <<FileLine("a", 1), HeaderLine, FileLine("b", 1)>>
    /\ progress_data[1].transferring_files = <<FileProgress("b", 1)>>

\* ------------------------------------------------------------------ C35
\* s is a prefix of t
IsPrefix(s, t) == Len(s) <= Len(t) /\ s = SubSeq(t, 1, Len(s))

\* C35: every item has its own stop signal, process handle and log.  A stop
\* signal is only ever set for the item in hand, and a monitor ends on its
\* own signal alone (or, having read nothing, by giving up); a kill request
\* only ever goes to the process of the item in hand, and the cancel request
\* made while that process is launched does send it one; what the monitor of
\* an item has read is a prefix of the log of that item's process.
C35_PerItemHandles ==
    /\ [](\A j \in ItemIds : IsPrefix(parsed[j], log[j]))
    /\ [][\A j \in ItemIds :
            /\ stop_event'[j] # stop_event[j] => j = i
            /\ (killReq'[j] /\ ~killReq[j]) => j = i /\ modal'.cancelled
            /\ (monPc[j] # "dead" /\ monPc'[j] = "dead") =>
                  stop_event[j] \/ parsed[j] = <<>>]_vars
    /\ [][(modal'.cancelled /\ ~modal.cancelled /\ op # "delete") =>
            /\ killReq'[i]
            /\ stop_event'[i]
            /\ \A j \in ItemIds \ {i} :
                  killReq'[j] = killReq[j] /\ monPc'[j] = monPc[j]]_vars

\* C35 witness: the second item was cancelled: its process got the kill
\* request and its stop signal is set, the first item's process, which had
\* exited with zero, got none, and both monitors have read their own logs
C35_Witness ==
    /\ i = 2 /\ modal.cancelled
    /\ killReq[2] /\ ~killReq[1] /\ exitCode[1] = Some(0)
    /\ stop_event[2]
    /\ parsed[1] # <<>> /\ parsed[2] # <<>>
    /\ parsed[1] # parsed[2]

\* ------------------------------------------------------------------ C36
\* C36: every poll tests the cancellation flag before the exit status.  A
\* poll made with the flag set takes the cancel branch whatever the process
\* has done; no exit status is obtained for the item once the flag is set,
\* so a run with a cancel request is never reported failed or completed, and
\* the non-zero status of a process that was sent a kill request is never
\* reported as the failure of its item; the run ends, and ends cancelled.
C36_CancelCheckedBeforeExitStatus ==
    /\ [](modal.cancelled =>
            /\ return_code[i] = None
            /\ status.kind \in {"none", "cancelled"})
    /\ [](\A j \in ItemIds :
            killReq[j] => ~PolledNonZero(j) /\ status.kind # "failed")
    /\ [][(modal.cancelled /\ pc = "poll") =>
              /\ pc' \in {"poll", "join_cancel"}
              /\ return_code' = return_code]_vars
    /\ modal.cancelled ~> (Done /\ status.kind = "cancelled")

\* C36 witness: the run ended cancelled although the process of the item in
\* hand had exited with a non-zero status of its own, with no kill request
\* outstanding when it exited
C36_Witness ==
    /\ Done /\ status.kind = "cancelled"
    /\ proc[i] = "exited"
    /\ exitCode[i] # Some(0) /\ exitCode[i] # Some(SIGKILL_RC)
    /\ return_code[i] = None

\* ------------------------------------------------------------------ C37
\* C37: from the moment a cancel request is made in a copy or move run, and
\* so when the run has ended cancelled, every process the run launched has
\* exited or has been sent a kill request; no later process is launched.
C37_NoProcessLeftRunning ==
    (op # "delete" /\ (modal.cancelled \/ status.kind = "cancelled")) =>
        /\ \A j \in ItemIds :
              Launched(j) => proc[j] = "exited" \/ killReq[j]
        /\ \A j \in ItemIds : Running(j) => j = i /\ killReq[j]

\* C37 witness: the run ended cancelled during its second item, whose
\* process still runs with the kill request sent, the first having exited
C37_Witness ==
    /\ Done /\ status.kind = "cancelled" /\ i = 2
    /\ Running(2) /\ killReq[2]
    /\ proc[1] = "exited" /\ ~killReq[1]

\* ------------------------------------------------------------------ C38
\* The run started a monitor thread for item j
MonitorStarted(j) == monPc[j] # "none"

C39_NoGiveUpAfterFirstByte ==
    [][\A j \in ItemIds :
          /\ parsed'[j] # parsed[j] =>
                wait_count'[j] = 0 /\ last_position'[j] > 0
          /\ (parsed[j] # <<>> /\ monPc[j] # "dead" /\ monPc'[j] = "dead") =>
                stop_event[j]
          /\ (parsed[j] # <<>> /\ MonitorAlive(j) /\ ~stop_event'[j]) =>
                MonitorAlive(j)']_vars

\* C39 witness: a monitor that has read from its log stands in its loop
\* after more than max_wait idle cycles in a row, its stop signal not set
C39_Witness ==
    /\ monPc[1] = "loop" /\ ~stop_event[1]
    /\ parsed[1] # <<>> /\ last_position[1] > 0
    /\ wait_count[1] > max_wait

====
